---- MODULE Spec2Model ----
(***************************************************************************)
(* KOLAnalyzer (src/src/core/kol_analysis.py): the influence               *)
(* identification and social-graph scoring engine, as a state machine      *)
(* over one analyzer instance.                                             *)
(*                                                                         *)
(* Number representation.  Python floats are modelled by exact rationals:  *)
(*   - engagement_rate and reach_score are records [n, d] (n/d, d > 0);    *)
(*   - an influence score is an integer number of hundredths, because      *)
(*     _calculate_influence_score returns round(total_score, 2); a tie     *)
(*     in the rounding goes to the even hundredth (Python's round).        *)
(* A dict is a sequence of [key, val] entries in insertion order.          *)
(* A user name is a sequence of one-character strings.                     *)
(***************************************************************************)
EXTENDS Integers, Sequences, FiniteSets, TLC

(***************************************************************************)
(* Generic helpers                                                         *)
(***************************************************************************)
Min(a, b) == IF a <= b THEN a ELSE b

Max(a, b) == IF a >= b THEN a ELSE b

RECURSIVE GCD(_, _)
GCD(a, b) == IF b = 0 THEN a ELSE GCD(b, a % b)

LCM(a, b) == (a \div GCD(a, b)) * b

\* Nearest integer to num/den (num >= 0, den > 0), ties to the even integer.
RoundHalfEven(num, den) ==
    LET q == num \div den
        r == num % den
    IN  IF 2 * r < den THEN q
        ELSE IF 2 * r > den THEN q + 1
        ELSE IF q % 2 = 0 THEN q ELSE q + 1

\* dict helpers: a dict is a sequence of [key |-> k, val |-> v]
Keys(d) == {d[i].key : i \in DOMAIN d}

HasKey(d, k) == \E i \in DOMAIN d : d[i].key = k

Get(d, k) == d[CHOOSE i \in DOMAIN d : d[i].key = k].val

\* the float n/d
Rat(n, d) == [n |-> n, d |-> d]

RECURSIVE SumSeq(_)
SumSeq(s) == IF s = <<>> THEN 0 ELSE Head(s) + SumSeq(Tail(s))

\* the rows of df whose user_id is uid, in order  (df[df['user_id'] == uid])
SelectRows(df, uid) == SelectSeq(df, LAMBDA r : r.user_id = uid)

(***************************************************************************)
(* Program constants                                                       *)
(***************************************************************************)
\* identify_kols(self, min_followers=10000, min_engagement=0.1)
DefaultMinFollowers == 10000

DefaultMinEngagement == [n |-> 1, d |-> 10]

\* stats['tweet_count'] >= 10
MinTweetCount == 10

\* sorted_kols[:20]
TopN == 20

\* unique_users[:100]
AccountLimit == 100

\* save_results: list(self.kol_data.items())[:50]
SaveLimit == 50

(***************************************************************************)
(* Text: str.lower() and the substring test `keyword in user_name`         *)
(***************************************************************************)
LowerChar(c) ==
    CASE c = "A" -> "a" [] c = "B" -> "b" [] c = "C" -> "c" [] c = "D" -> "d"
      [] c = "E" -> "e" [] c = "F" -> "f" [] c = "G" -> "g" [] c = "H" -> "h"
      [] c = "I" -> "i" [] c = "J" -> "j" [] c = "K" -> "k" [] c = "L" -> "l"
      [] c = "M" -> "m" [] c = "N" -> "n" [] c = "O" -> "o" [] c = "P" -> "p"
      [] c = "Q" -> "q" [] c = "R" -> "r" [] c = "S" -> "s" [] c = "T" -> "t"
      [] c = "U" -> "u" [] c = "V" -> "v" [] c = "W" -> "w" [] c = "X" -> "x"
      [] c = "Y" -> "y" [] c = "Z" -> "z" [] OTHER -> c

Lower(name) == [i \in DOMAIN name |-> LowerChar(name[i])]

Contains(name, kw) ==
    \E i \in 1..(Len(name) - Len(kw) + 1) : SubSeq(name, i, i + Len(kw) - 1) = kw

AnyKeyword(name, kws) == \E k \in DOMAIN kws : Contains(name, kws[k])

CryptoKeywords ==
    << <<"c","r","y","p","t","o">>, <<"b","t","c">>, <<"e","t","h">>, <<"n","f","t">> >>

TechKeywords ==
    << <<"t","e","c","h">>, <<"a","i">>, <<"s","t","a","r","t","u","p">> >>

FinanceKeywords ==
    << <<"t","r","a","d","i","n","g">>, <<"f","i","n","a","n","c","e">>,
       <<"i","n","v","e","s","t">> >>

EntertainmentKeywords ==
    << <<"g","a","m","i","n","g">>, <<"a","r","t">>, <<"m","u","s","i","c">> >>

\* CategorizeKol with the tech group tested before the crypto group
CategorizeKolTechFirst(stats) ==
    LET user_name == Lower(stats.user_name)
    IN  IF AnyKeyword(user_name, TechKeywords) THEN "tech"
        ELSE IF AnyKeyword(user_name, CryptoKeywords) THEN "crypto"
        ELSE IF AnyKeyword(user_name, FinanceKeywords) THEN "finance"
        ELSE IF AnyKeyword(user_name, EntertainmentKeywords) THEN "entertainment"
        ELSE "general"

\* _categorize_kol
CategorizeKol(stats) ==
    LET user_name == Lower(stats.user_name)
    IN  IF AnyKeyword(user_name, CryptoKeywords) THEN "crypto"
        ELSE IF AnyKeyword(user_name, TechKeywords) THEN "tech"
        ELSE IF AnyKeyword(user_name, FinanceKeywords) THEN "finance"
        ELSE IF AnyKeyword(user_name, EntertainmentKeywords) THEN "entertainment"
        ELSE "general"

(***************************************************************************)
(* _calculate_influence_score.  With L the least common multiple of the    *)
(* denominators of engagement_rate and reach_score, every component is an  *)
(* exact multiple of 1/(50000*L); the four operators below return the      *)
(* component's numerator over that common denominator.                     *)
(***************************************************************************)
ScoreUnit == 50000

ScoreL(stats) == LCM(stats.engagement_rate.d, stats.reach_score.d)

\* min(follower_count / 1000000, 1.0) * 40
FollowerScore(stats, L) == 2 * L * Min(stats.follower_count, 1000000)

\* EngagementScore with the cap set one point too high
EngagementScoreCap31(stats, L) ==
    LET er == stats.engagement_rate
    IN  IF 100 * er.n >= 31 * er.d
        THEN 31 * ScoreUnit * L
        ELSE 100 * ScoreUnit * er.n * (L \div er.d)

\* min(engagement_rate * 100, 30)
EngagementScore(stats, L) ==
    LET er == stats.engagement_rate
    IN  IF 100 * er.n >= 30 * er.d
        THEN 30 * ScoreUnit * L
        ELSE 100 * ScoreUnit * er.n * (L \div er.d)

\* min(reach_score / 10000, 20)
ReachScore(stats, L) ==
    LET rs == stats.reach_score
    IN  IF rs.n >= 200000 * rs.d
        THEN 20 * ScoreUnit * L
        ELSE 5 * rs.n * (L \div rs.d)

\* min(tweet_count / 1000, 10)
ActivityScore(stats, L) ==
    IF stats.tweet_count >= 10000
    THEN 10 * ScoreUnit * L
    ELSE 50 * L * stats.tweet_count

\* total_score before the verification bonus, numerator over 50000*L
BaseScore(stats) ==
    LET L == ScoreL(stats)
    IN  FollowerScore(stats, L) + EngagementScore(stats, L)
          + ReachScore(stats, L) + ActivityScore(stats, L)

\* CalculateInfluenceScore with a verification bonus of 1.25
CalculateInfluenceScoreBonus125(stats) ==
    LET L == ScoreL(stats)
        S == BaseScore(stats)
    IN  IF stats.verified
        THEN RoundHalfEven(S, 400 * L)
        ELSE RoundHalfEven(S, 500 * L)

\* if stats['verified']: total_score *= 1.2 ; return round(total_score, 2)
\* result in hundredths:  100*S/(50000 L)  resp.  120*S/(50000 L)
CalculateInfluenceScore(stats) ==
    LET L == ScoreL(stats)
        S == BaseScore(stats)
    IN  IF stats.verified
        THEN RoundHalfEven(6 * S, 2500 * L)
        ELSE RoundHalfEven(S, 500 * L)

\* DetermineKolLevel with exclusive lower bounds
DetermineKolLevelExclusive(influence_score) ==
    IF influence_score > 8000 THEN "Tier 1"
    ELSE IF influence_score > 6000 THEN "Tier 2"
    ELSE IF influence_score > 4000 THEN "Tier 3"
    ELSE "Tier 4"

\* DetermineKolLevel with every comparison turned round
DetermineKolLevelFlipped(influence_score) ==
    IF influence_score <= 8000 THEN "Tier 1"
    ELSE IF influence_score <= 6000 THEN "Tier 2"
    ELSE IF influence_score <= 4000 THEN "Tier 3"
    ELSE "Tier 4"

\* _determine_kol_level (influence_score in hundredths); the strings stand
\* for the four return values, which start with 'Tier 1' .. 'Tier 4'
DetermineKolLevel(influence_score) ==
    IF influence_score >= 8000 THEN "Tier 1"
    ELSE IF influence_score >= 6000 THEN "Tier 2"
    ELSE IF influence_score >= 4000 THEN "Tier 3"
    ELSE "Tier 4"

\* IsKol without the follower threshold
IsKolNoFollowerGate(stats, min_followers, min_engagement) ==
    /\ stats.engagement_rate.n * min_engagement.d
          >= min_engagement.n * stats.engagement_rate.d
    /\ stats.tweet_count >= MinTweetCount

\* the qualification gate of identify_kols (is_kol)
IsKol(stats, min_followers, min_engagement) ==
    /\ stats.follower_count >= min_followers
    /\ stats.engagement_rate.n * min_engagement.d
          >= min_engagement.n * stats.engagement_rate.d
    /\ stats.tweet_count >= MinTweetCount

(***************************************************************************)
(* Bounds of the model                                                     *)
(***************************************************************************)
\* calls made on one analyzer instance
MaxCalls == 5

\* calls made on one analyzer instance when only the graph is built
MaxCallsGraph == 6

\* calls made on one analyzer instance when the large file is loaded
MaxCallsMany == 3

\* calls made on one analyzer instance when a degenerate file is loaded
MaxCallsDegenerate == 6

\* calls made on one analyzer instance whose user_stats a client has set
MaxCallsScenario == 4

\* calls made on one analyzer instance when a file of many accounts is loaded
MaxCallsLimit == 3

\* calls on an analyzer whose results are saved
MaxCallsSave == 3

\* direct calls on a collector
MaxCallsCollector == 2

\* tasks the scheduler runs
MaxTasks == 3

\* calls of the whole pipeline on the ordinary files
MaxCallsPipeline == 4

\* the chunk sizes tried when a file is read in batches: 1..MaxBatch
MaxBatch == 12

\* the states of the random generator tried: 0..MaxSeed
MaxSeed == 8

(***************************************************************************)
(* Input files.  A tweets file is a sequence of rows                       *)
(*   [user_id, user_name, text, created_at, views, likes, retweets,        *)
(*    replies], a followings file a sequence of [user_id,                  *)
(*   following_user_id].  A cell is the text of the file, NaN a missing    *)
(* cell; read_csv decides per column and per chunk how an id is parsed.    *)
(***************************************************************************)
NaN == "NaN"

Row(uid, name, text, ts, views, likes, retweets, replies) ==
    [user_id |-> uid, user_name |-> name, text |-> text, created_at |-> ts,
     views |-> views, likes |-> likes, retweets |-> retweets, replies |-> replies]

\* k rows of one user; the first row has likes1 likes, the others likes2
UserRows(uid, name, k, views, likes1, likes2) ==
    [i \in 1..k |-> Row(uid, name, "t", i, views, IF i = 1 THEN likes1 ELSE likes2, 0, 0)]

NameBtcAi == <<"B","T","C","_","a","i">>

NameTechBob == <<"T","e","c","h","B","o","b">>

NameZed == <<"Z","e","d">>

NameArtFan == <<"A","r","t","F","a","n">>

\* accounts 2, 1, 3 in order of first appearance; two malformed rows
TweetsSmall ==
    <<Row("2", NameTechBob, "t", 1, 100, 1, 0, 0)>>
      \o UserRows("1", NameBtcAi, 10, 250000, 1, 1)
      \o <<Row(NaN, NameZed, "t", 3, 7, 7, 7, 7), Row("3", NameZed, NaN, 3, 7, 7, 7, 7)>>
      \o UserRows("3", NameZed, 5, 10, 3, 3)
      \o UserRows("2", NameTechBob, 11, 100, 0, 0)

\* a different account set: 4 (engagement 0.2, no reach) and 3
TweetsOther ==
    UserRows("4", NameArtFan, 10, 0, 2, 0) \o UserRows("3", NameZed, 10, 400000, 0, 1)

\* TopN + 1 accounts "1".."21" of MinTweetCount tweets each, engagement 1.0,
\* reach 10000 * (i % 3), so that scores differ and tie
RECURSIVE ManyUsers(_)
ManyUsers(n) ==
    IF n = 0 THEN <<>>
    ELSE ManyUsers(n - 1)
           \o UserRows(ToString(n),
                       IF n % 2 = 0 THEN NameZed ELSE NameArtFan,
                       MinTweetCount, 10000 * (n % 3), 1, 1)

TweetsMany == ManyUsers(TopN + 1)

Follow(a, b) == [user_id |-> a, following_user_id |-> b]

\* 1->2 twice, 2->3, a dangling record, a self-loop, two malformed records
FollowsSmall ==
    <<Follow("1", "2"), Follow("2", "3"), Follow("1", "9"), Follow("1", "2"),
      Follow("3", "3"), Follow(NaN, "2"), Follow("1", NaN)>>

FollowsOther == <<Follow("4", "3"), Follow("8", "4")>>

\* the (tweets file, followings file) pairs load_data is called with
Datasets ==
    {[tweets |-> TweetsSmall, followings |-> FollowsSmall],
     [tweets |-> TweetsOther, followings |-> FollowsOther]}

DatasetsMany == {[tweets |-> TweetsMany, followings |-> FollowsSmall]}

\* SaveLimit + 2 accounts, so that more accounts can qualify than are saved
TweetsSave == ManyUsers(SaveLimit + 2)

DatasetsSave ==
    {[tweets |-> TweetsSave, followings |-> FollowsSmall],
     [tweets |-> TweetsOther, followings |-> FollowsOther]}

\* n accounts of one tweet each, first appearing in the order n, n-1, .., 1
Countdown(n) ==
    [k \in 1..n |-> Row(ToString(n + 1 - k), NameZed, "t", k, 100, 1, 0, 0)]

\* AccountLimit + 1 accounts, then a second tweet of the first account and
\* of the last one
TweetsOverLimit ==
    Countdown(AccountLimit + 1)
      \o <<Row(ToString(AccountLimit + 1), NameZed, "t", 200, 50, 3, 1, 2),
           Row("1", NameZed, "t", 201, 50, 3, 1, 2)>>

\* exactly AccountLimit accounts
TweetsAtLimit == Countdown(AccountLimit)

DatasetsLimit ==
    {[tweets |-> TweetsOverLimit, followings |-> FollowsOther],
     [tweets |-> TweetsAtLimit, followings |-> FollowsOther],
     [tweets |-> TweetsOther, followings |-> FollowsOther]}

\* no valid post record: every row misses user_id or text
TweetsNone ==
    <<Row(NaN, NameZed, "t", 1, 7, 7, 7, 7), Row("5", NameZed, NaN, 2, 7, 7, 7, 7)>>

\* a single account, 5, of MinTweetCount tweets and engagement 0.2
TweetsOne == UserRows("5", NameTechBob, MinTweetCount, 100, 2, 0)

\* no valid follow record: one malformed record, or two
FollowsNone == <<Follow(NaN, "5")>>

FollowsNoneMore == <<Follow(NaN, "5"), Follow("5", NaN)>>

\* the degenerate inputs: zero accounts, and one account with zero edges
DatasetsDegenerate ==
    {[tweets |-> TweetsNone, followings |-> FollowsNone],
     [tweets |-> TweetsOne, followings |-> FollowsNone],
     [tweets |-> TweetsOne, followings |-> FollowsNoneMore]}

(***************************************************************************)
(* The random draws of generate_mock_kol_data.  One draw of numpy's        *)
(* generator per account, taken from a few representative tuples           *)
(* (follower_count in [1000, 999999], following_count in [100, 9999],      *)
(* account_age_days in [30, 999], verified); which tuple account number i  *)
(* gets is digit (i-1) % 3 of the seed written in base Len(DrawChoices).   *)
(***************************************************************************)
DrawChoices ==
    << [follower_count |-> 5000,   following_count |-> 100,  account_age_days |-> 30,  verified |-> FALSE],
       [follower_count |-> 15000,  following_count |-> 9999, account_age_days |-> 999, verified |-> TRUE],
       [follower_count |-> 999999, following_count |-> 5000, account_age_days |-> 365, verified |-> FALSE] >>

RECURSIVE Pow(_, _)
Pow(b, e) == IF e = 0 THEN 1 ELSE b * Pow(b, e - 1)

Seeds == 0..MaxSeed

Draw(seed, i) ==
    DrawChoices[((seed \div Pow(Len(DrawChoices), (i - 1) % 3)) % Len(DrawChoices)) + 1]

(***************************************************************************)
(* State of one KOLAnalyzer instance, of the file it saves, and of the    *)
(* collector and the scheduler's result file                               *)
(***************************************************************************)
VARIABLES
    attrs,            \* names of the attributes set outside __init__ (hasattr)
    tweets_df,        \* self.tweets_df: sequence of rows
    followings_df,    \* self.followings_df: sequence of follow records
    user_stats,       \* self.user_stats: dict user_id -> stats
    kol_data,         \* self.kol_data: dict user_id -> stats + score fields
    user_network,     \* self.user_network: [nodes, edges] of the DiGraph
    kol_report,       \* self.kol_report
    network_metrics,  \* self.network_metrics
    error,            \* exception raised by the last call, or "none"
    last_call,        \* the last call made and its arguments
    gate,             \* thresholds of the last run of identify_kols
    fn_arg,           \* argument of a direct call of a function
    fn_ret,           \* what that call returned
    budget,           \* number of calls still allowed by the bound
    save_data,        \* the dict save_results wrote to its file
    db_tweets,        \* rows of the collector's table tweets
    db_users,         \* user_id of the rows of the collector's table users
    task_results,     \* the scheduler's file task_execution_results.json
    now               \* the wall clock, in seconds

vars ==
    <<attrs, tweets_df, followings_df, user_stats, kol_data, user_network,
      kol_report, network_metrics, error, last_call, gate, fn_arg, fn_ret, budget,
      save_data, db_tweets, db_users, task_results, now>>

\* what is kept outside the analyzer's attributes
stored == <<save_data, db_tweets, db_users, task_results, now>>

NoReport ==
    [summary |-> [total_kols |-> 0, total_users |-> 0, kol_percentage |-> [n |-> 0, d |-> 1]],
     top_kols |-> <<>>,
     category_distribution |-> <<>>,
     level_distribution |-> <<>>]

\* the dict {} analyze_network_metrics starts from
NoMetrics == <<>>

NoGate == [min_followers |-> 0, min_engagement |-> [n |-> 0, d |-> 1]]

\* __init__: kol_data = {}, user_network = nx.DiGraph()
Constructed ==
    /\ attrs = {}
    /\ tweets_df = <<>>
    /\ followings_df = <<>>
    /\ user_stats = <<>>
    /\ kol_data = <<>>
    /\ user_network = [nodes |-> {}, edges |-> {}]
    /\ kol_report = NoReport
    /\ network_metrics = NoMetrics
    /\ error = "none"
    /\ last_call = [op |-> "__init__"]
    /\ gate = NoGate

\* before save_results has written anything
NoSave == [written |-> FALSE]

\* task_execution_results.json does not exist
NoFile == [exists |-> FALSE, results |-> <<>>]

\* nothing saved, empty tables, no task run yet
NothingStored ==
    /\ save_data = NoSave
    /\ db_tweets = {}
    /\ db_users = {}
    /\ task_results = NoFile
    /\ now = 0

NoStats ==
    [user_name |-> <<>>, follower_count |-> 0, following_count |-> 0, tweet_count |-> 0,
     total_views |-> 0, total_likes |-> 0, total_retweets |-> 0, total_replies |-> 0,
     engagement_rate |-> [n |-> 0, d |-> 1], reach_score |-> [n |-> 0, d |-> 1],
     account_age_days |-> 0, verified |-> FALSE, last_active |-> [unix_s |-> 0]]

NoCall == [called |-> "none", score |-> 0, level |-> "none"]

NoDirectCall == fn_arg = [stats |-> NoStats, score |-> 0] /\ fn_ret = NoCall

Init == Constructed /\ NothingStored /\ NoDirectCall /\ budget = MaxCalls

InitGraph == Constructed /\ NothingStored /\ NoDirectCall /\ budget = MaxCallsGraph

InitMany == Constructed /\ NothingStored /\ NoDirectCall /\ budget = MaxCallsMany

\* Account records a client assigns to self.user_stats itself, with the
\* follow records it assigns to self.followings_df: A (15,000 followers,
\* engagement 0.2, 20 posts, verified), B (5,000, 0.5, 15 posts), C (20,000,
\* 0.05, 5 posts), A -> B and B -> C.
ScenarioStats ==
    <<[key |-> "A",
       val |-> [NoStats EXCEPT !.user_name = NameArtFan, !.follower_count = 15000,
                               !.engagement_rate = Rat(1, 5), !.tweet_count = 20,
                               !.verified = TRUE]],
      [key |-> "B",
       val |-> [NoStats EXCEPT !.user_name = NameTechBob, !.follower_count = 5000,
                               !.engagement_rate = Rat(1, 2), !.tweet_count = 15]],
      [key |-> "C",
       val |-> [NoStats EXCEPT !.user_name = NameZed, !.follower_count = 20000,
                               !.engagement_rate = Rat(1, 20), !.tweet_count = 5]]>>

ScenarioFollows == <<Follow("A", "B"), Follow("B", "C")>>

\* a new analyzer on which the client has set the two attributes
InitScenario ==
    /\ attrs = {"user_stats", "followings_df"}
    /\ tweets_df = <<>>
    /\ followings_df = ScenarioFollows
    /\ user_stats = ScenarioStats
    /\ kol_data = <<>>
    /\ user_network = [nodes |-> {}, edges |-> {}]
    /\ kol_report = NoReport
    /\ network_metrics = NoMetrics
    /\ error = "none"
    /\ last_call = [op |-> "__init__"]
    /\ gate = NoGate
    /\ NothingStored
    /\ NoDirectCall
    /\ budget = MaxCallsScenario

InitLimit == Constructed /\ NothingStored /\ NoDirectCall /\ budget = MaxCallsLimit

InitPipeline == Constructed /\ NothingStored /\ NoDirectCall /\ budget = MaxCallsPipeline

InitSave == Constructed /\ NothingStored /\ NoDirectCall /\ budget = MaxCallsSave

InitDegenerate == Constructed /\ NothingStored /\ NoDirectCall /\ budget = MaxCallsDegenerate

(***************************************************************************)
(* load_data and _preprocess_data                                          *)
(***************************************************************************)
RECURSIVE Chunks(_, _)
\* pd.read_csv(file, chunksize=n): the file's rows in chunks of n
Chunks(rows, n) ==
    IF rows = <<>> THEN <<>>
    ELSE IF Len(rows) <= n THEN <<rows>>
    ELSE <<SubSeq(rows, 1, n)>> \o Chunks(SubSeq(rows, n + 1, Len(rows)), n)

RECURSIVE Concat(_)
\* pd.concat(chunks, ignore_index=True)
Concat(chunks) ==
    IF chunks = <<>> THEN <<>> ELSE Head(chunks) \o Concat(Tail(chunks))

ChunkSize == 10000

\* the cells read_csv parses as integers: the decimal numerals
NumericIds == {ToString(n) : n \in 0..(AccountLimit + 1)}

\* the dtype read_csv infers for an id column read in one piece: object when
\* a cell is not a number, float64 when all are numbers and one is missing
InferDtype(cells) ==
    IF \E i \in DOMAIN cells : cells[i] # NaN /\ cells[i] \notin NumericIds THEN "object"
    ELSE IF \E i \in DOMAIN cells : cells[i] = NaN THEN "float64"
    ELSE "int64"

\* one chunk as read_csv yields it: user_id parsed with the dtype inferred
\* from this chunk alone
ReadChunk(rows) ==
    LET dtype == InferDtype([i \in DOMAIN rows |-> rows[i].user_id])
    IN  [i \in DOMAIN rows |->
            [rows[i] EXCEPT !.user_id = [dtype |-> dtype, cell |-> rows[i].user_id]]]

\* the chunks appended to self.tweets_data
ReadCsv(file, chunksize) ==
    LET chunks == Chunks(file, chunksize)
    IN  [c \in DOMAIN chunks |-> ReadChunk(chunks[c])]

\* the dtype pd.concat gives a column made of pieces of these dtypes
ConcatDtype(dtypes) ==
    IF Cardinality(dtypes) = 1 THEN CHOOSE d \in dtypes : TRUE
    ELSE IF "object" \in dtypes THEN "object"
    ELSE "float64"

\* astype(str) of one id: a number held as a float prints with '.0'; an
\* int64 piece is cast to float when the whole column is float64, and an
\* object column keeps every element as its piece parsed it
AsTypeStr(cell, piece_dtype, column_dtype) ==
    IF piece_dtype = "float64" \/ (piece_dtype = "int64" /\ column_dtype = "float64")
    THEN cell \o ".0"
    ELSE cell

\* df.dropna(subset=cols): a row stays iff all the cells of cols are present
TweetPresent(r) == r.user_id.cell # NaN /\ r.text # NaN

FollowPresent(r) == r.user_id # NaN /\ r.following_user_id # NaN

\* pd.to_datetime(created_at, unit='s')
ToDatetime(r) == [r EXCEPT !.created_at = [unix_s |-> r.created_at]]

\* _preprocess_data on the concatenated tweets frame
PreprocessTweets(df) ==
    LET column_dtype == ConcatDtype({df[i].user_id.dtype : i \in DOMAIN df})
        kept == SelectSeq(df, TweetPresent)
    IN  [i \in DOMAIN kept |->
            [ToDatetime(kept[i]) EXCEPT
                !.user_id = AsTypeStr(kept[i].user_id.cell, kept[i].user_id.dtype,
                                      column_dtype)]]

\* pd.read_csv(followings_file) in one piece, then _preprocess_data
PreprocessFollowings(df) ==
    LET dtype_a == InferDtype([i \in DOMAIN df |-> df[i].user_id])
        dtype_b == InferDtype([i \in DOMAIN df |-> df[i].following_user_id])
        kept == SelectSeq(df, FollowPresent)
    IN  [i \in DOMAIN kept |->
            [user_id |-> AsTypeStr(kept[i].user_id, dtype_a, dtype_a),
             following_user_id |-> AsTypeStr(kept[i].following_user_id, dtype_b, dtype_b)]]

\* self.tweets_df after load_data read the file in chunks of chunksize rows
LoadedTweets(tweets_file, chunksize) ==
    PreprocessTweets(Concat(ReadCsv(tweets_file, chunksize)))

LoadData(tweets_file, followings_file) ==
    /\ budget > 0
    /\ budget' = budget - 1
    /\ tweets_df' = LoadedTweets(tweets_file, ChunkSize)
    /\ followings_df' = PreprocessFollowings(followings_file)
    /\ attrs' = attrs \cup {"tweets_df", "tweets_data", "followings_df"}
    /\ error' = "none"
    /\ last_call' = [op |-> "load_data"]
    /\ UNCHANGED <<user_stats, kol_data, user_network, kol_report, network_metrics, gate, fn_arg, fn_ret, stored>>

(***************************************************************************)
(* generate_mock_kol_data                                                  *)
(***************************************************************************)
RECURSIVE UniqueOf(_)
\* distinct values of a sequence in order of first appearance
UniqueOf(ids) ==
    IF Len(ids) <= 1 THEN ids
    ELSE LET h == Len(ids) \div 2
             a == UniqueOf(SubSeq(ids, 1, h))
             b == UniqueOf(SubSeq(ids, h + 1, Len(ids)))
             seen == {a[i] : i \in DOMAIN a}
         IN  a \o SelectSeq(b, LAMBDA u : u \notin seen)

\* Series.unique() of the user_id column
Unique(df) == UniqueOf([i \in DOMAIN df |-> df[i].user_id])

RECURSIVE MaxCreated(_)
MaxCreated(rows) ==
    IF Len(rows) = 1 THEN Head(rows).created_at.unix_s
    ELSE Max(Head(rows).created_at.unix_s, MaxCreated(Tail(rows)))

\* the measured part of the stats record of one account (lines 130-144, 159-165, 176)
Measured(df, user_id) ==
    LET user_tweets == SelectRows(df, user_id)
        total_views == SumSeq([k \in DOMAIN user_tweets |-> user_tweets[k].views])
        total_likes == SumSeq([k \in DOMAIN user_tweets |-> user_tweets[k].likes])
        total_retweets == SumSeq([k \in DOMAIN user_tweets |-> user_tweets[k].retweets])
        total_replies == SumSeq([k \in DOMAIN user_tweets |-> user_tweets[k].replies])
        tweet_count == Len(user_tweets)
    IN  [user_name |-> user_tweets[1].user_name,
         tweet_count |-> tweet_count,
         total_views |-> total_views,
         total_likes |-> total_likes,
         total_retweets |-> total_retweets,
         total_replies |-> total_replies,
         engagement_rate |-> [n |-> total_likes + total_retweets + total_replies,
                              d |-> Max(tweet_count, 1)],
         reach_score |-> [n |-> total_views, d |-> Max(tweet_count, 1)],
         last_active |-> [unix_s |-> MaxCreated(user_tweets)]]

\* MeasuredStats without the [:100]
MeasuredStatsNoLimit(df) ==
    LET unique_users == Unique(df)
    IN  [i \in DOMAIN unique_users |->
            [key |-> unique_users[i], val |-> Measured(df, unique_users[i])]]

\* unique_users[:100] with the measured statistics of each
MeasuredStats(df) ==
    LET unique_users == Unique(df)
        limited == SubSeq(unique_users, 1, Min(Len(unique_users), AccountLimit))
    IN  [i \in DOMAIN limited |-> [key |-> limited[i], val |-> Measured(df, limited[i])]]

\* the random fields of the i-th account
Synthesized(seed, i) ==
    LET draw == Draw(seed, i)
    IN  [follower_count |-> draw.follower_count,
         following_count |-> draw.following_count,
         account_age_days |-> draw.account_age_days,
         verified |-> draw.verified]

\* the user_stats dict generate_mock_kol_data assigns
MockStats(measured, seed) ==
    [i \in DOMAIN measured |->
        [key |-> measured[i].key, val |-> Synthesized(seed, i) @@ measured[i].val]]

GenerateMockKolData ==
    /\ budget > 0
    /\ budget' = budget - 1
    /\ IF "tweets_df" \notin attrs
       THEN /\ error' = "AttributeError"
            /\ last_call' = [op |-> "generate_mock_kol_data"]
            /\ UNCHANGED <<attrs, user_stats>>
       ELSE LET measured == MeasuredStats(tweets_df)
            IN  \E seed \in Seeds :
                  /\ error' = "none"
                  /\ last_call' = [op |-> "generate_mock_kol_data"]
                  /\ user_stats' = MockStats(measured, seed)
                  /\ attrs' = attrs \cup {"user_stats"}
    /\ UNCHANGED <<tweets_df, followings_df, kol_data, user_network, kol_report, network_metrics, gate, fn_arg, fn_ret, stored>>

(***************************************************************************)
(* identify_kols                                                           *)
(***************************************************************************)
\* {**stats, 'influence_score': ..., 'category': ..., 'kol_level': ...}
KolEntry(stats) ==
    LET influence_score == CalculateInfluenceScore(stats)
    IN  [influence_score |-> influence_score,
         category |-> CategorizeKol(stats),
         kol_level |-> DetermineKolLevel(influence_score)] @@ stats

RECURSIVE Kols(_, _, _)
\* the dict kols built by the loop over user_stats.items()
Kols(us, min_followers, min_engagement) ==
    IF us = <<>> THEN <<>>
    ELSE LET rest == Kols(Tail(us), min_followers, min_engagement)
         IN  IF IsKol(Head(us).val, min_followers, min_engagement)
             THEN <<[key |-> Head(us).key, val |-> KolEntry(Head(us).val)]>> \o rest
             ELSE rest

\* the seeds a call may consume: only a call that runs generate_mock_kol_data draws
SeedsIf(draws) == IF draws THEN Seeds ELSE {0}

IdentifyKols(min_followers, min_engagement) ==
    /\ budget > 0
    /\ budget' = budget - 1
    /\ last_call' = [op |-> "identify_kols", min_followers |-> min_followers,
                     min_engagement |-> min_engagement]
    /\ LET need_mock == "user_stats" \notin attrs
       IN  IF need_mock /\ "tweets_df" \notin attrs
           THEN /\ error' = "AttributeError"
                /\ UNCHANGED <<attrs, user_stats, kol_data, gate>>
           ELSE LET measured == IF need_mock THEN MeasuredStats(tweets_df) ELSE <<>>
                IN  \E seed \in SeedsIf(need_mock) :
                LET us == IF need_mock THEN MockStats(measured, seed) ELSE user_stats
                IN  /\ error' = "none"
                    /\ user_stats' = us
                    /\ attrs' = attrs \cup {"user_stats"}
                    /\ kol_data' = Kols(us, min_followers, min_engagement)
                    /\ gate' = [min_followers |-> min_followers,
                                min_engagement |-> min_engagement]
    /\ UNCHANGED <<tweets_df, followings_df, user_network, kol_report, network_metrics, fn_arg, fn_ret, stored>>

(***************************************************************************)
(* build_user_network                                                      *)
(***************************************************************************)
\* AdmittedEdges without the records of an account that follows itself
AdmittedEdgesNoLoops(fdf, us) ==
    {<<fdf[i].user_id, fdf[i].following_user_id>> :
        i \in {j \in DOMAIN fdf :
                 /\ HasKey(us, fdf[j].user_id) /\ HasKey(us, fdf[j].following_user_id)
                 /\ fdf[j].user_id # fdf[j].following_user_id}}

\* the (user_id, following_user_id) pairs the loop over followings_df adds
AdmittedEdges(fdf, us) ==
    {<<fdf[i].user_id, fdf[i].following_user_id>> :
        i \in {j \in DOMAIN fdf :
                 HasKey(us, fdf[j].user_id) /\ HasKey(us, fdf[j].following_user_id)}}

\* the graph after add_node for every key of user_stats and add_edge for
\* every admitted record (add_edge would also add a missing endpoint)
BuiltNetwork(g, fdf, us) ==
    LET added == AdmittedEdges(fdf, us)
    IN  [nodes |-> g.nodes \cup Keys(us)
                     \cup {e[1] : e \in added} \cup {e[2] : e \in added},
         edges |-> g.edges \cup added]

BuildUserNetwork ==
    /\ budget > 0
    /\ budget' = budget - 1
    /\ last_call' = [op |-> "build_user_network"]
    /\ IF "user_stats" \notin attrs
       THEN /\ error' = "AttributeError"
            /\ UNCHANGED user_network
       ELSE /\ error' = "none"
            /\ user_network' = BuiltNetwork(user_network, followings_df, user_stats)
    /\ UNCHANGED <<attrs, tweets_df, followings_df, user_stats, kol_data, kol_report, network_metrics, gate, fn_arg, fn_ret, stored>>

(***************************************************************************)
(* analyze_network_metrics.  The measures are networkx's, on the DiGraph   *)
(* [nodes, edges]; their values are exact rationals in lowest terms, and   *)
(* float('inf') is the record Inf.                                         *)
(***************************************************************************)
\* n/d in lowest terms (n >= 0, d > 0)
Norm(n, d) ==
    IF n = 0 THEN Rat(0, 1) ELSE Rat(n \div GCD(n, d), d \div GCD(n, d))

RatAdd(a, b) == Norm(a.n * b.d + b.n * a.d, a.d * b.d)

RECURSIVE RatSum(_)
\* sum of the rationals f[x], x in DOMAIN f
RatSum(f) ==
    IF DOMAIN f = {} THEN Rat(0, 1)
    ELSE LET x == CHOOSE y \in DOMAIN f : TRUE
         IN  RatAdd(f[x], RatSum([y \in DOMAIN f \ {x} |-> f[y]]))

RECURSIVE IntSum(_)
\* sum of the integers f[x], x in DOMAIN f
IntSum(f) ==
    IF DOMAIN f = {} THEN 0
    ELSE LET x == CHOOSE y \in DOMAIN f : TRUE
         IN  f[x] + IntSum([y \in DOMAIN f \ {x} |-> f[y]])

\* float('inf')
Inf == [n |-> 1, d |-> 0]

Successors(g, u) == {v \in g.nodes : <<u, v>> \in g.edges}

Predecessors(g, u) == {v \in g.nodes : <<v, u>> \in g.edges}

RECURSIVE Within(_, _, _)
\* the nodes a directed path of at most k edges leads to from s
Within(g, s, k) ==
    IF k = 0 THEN {s}
    ELSE LET prev == Within(g, s, k - 1)
         IN  prev \cup UNION {Successors(g, u) : u \in prev}

\* no path
Unreachable == -1

\* length of a shortest directed path from s to t (breadth-first search)
Distance(g, s, t) ==
    LET ks == {k \in 0..(Cardinality(g.nodes) - 1) : t \in Within(g, s, k)}
    IN  IF ks = {} THEN Unreachable ELSE CHOOSE k \in ks : \A j \in ks : k <= j

RECURSIVE PathCount(_, _, _)
\* number of shortest directed paths from s to t (t reachable from s)
PathCount(g, s, t) ==
    IF s = t THEN 1
    ELSE LET before == {p \in Predecessors(g, t) \ {t} :
                          Distance(g, s, p) # Unreachable
                          /\ Distance(g, s, p) + 1 = Distance(g, s, t)}
         IN  IntSum([p \in before |-> PathCount(g, s, p)])

\* G.to_undirected()
ToUndirected(g) ==
    [nodes |-> g.nodes, edges |-> g.edges \cup {<<e[2], e[1]>> : e \in g.edges}]

\* nx.is_connected on a graph with a node; on a DiGraph made undirected
\* this is weak connectivity
IsConnected(g) ==
    \A s, t \in g.nodes : Distance(g, s, t) # Unreachable

\* nx.degree_centrality: (in-degree + out-degree) / (n - 1); 1 when n <= 1
DegreeCentrality(g, u) ==
    IF Cardinality(g.nodes) <= 1 THEN Rat(1, 1)
    ELSE Norm(Cardinality(Predecessors(g, u)) + Cardinality(Successors(g, u)),
              Cardinality(g.nodes) - 1)

\* nx.closeness_centrality (wf_improved): over the nodes that reach u,
\* (r / sum of their distances to u) * (r / (n - 1)), r their number; 0 when
\* no other node reaches u
ClosenessCentrality(g, u) ==
    LET sp == {v \in g.nodes : Distance(g, v, u) # Unreachable}
        totsp == IntSum([v \in sp |-> Distance(g, v, u)])
        r == Cardinality(sp) - 1
    IN  IF totsp > 0 /\ Cardinality(g.nodes) > 1
        THEN Norm(r * r, totsp * (Cardinality(g.nodes) - 1))
        ELSE Rat(0, 1)

\* nx.betweenness_centrality (normalized, endpoints excluded): the sum over
\* the pairs s, t of the share of the shortest s-t paths through u, divided
\* by (n - 1)(n - 2) when n > 2
BetweennessCentrality(g, u) ==
    LET n == Cardinality(g.nodes)
        pairs == {p \in (g.nodes \ {u}) \X (g.nodes \ {u}) :
                    /\ p[1] # p[2]
                    /\ Distance(g, p[1], p[2]) # Unreachable
                    /\ Distance(g, p[1], u) # Unreachable
                    /\ Distance(g, u, p[2]) # Unreachable
                    /\ Distance(g, p[1], u) + Distance(g, u, p[2])
                         = Distance(g, p[1], p[2])}
        raw == RatSum([p \in pairs |->
                         Norm(PathCount(g, p[1], u) * PathCount(g, u, p[2]),
                              PathCount(g, p[1], p[2]))])
    IN  IF n > 2 THEN Norm(raw.n, raw.d * (n - 1) * (n - 2)) ELSE raw

\* nx.density of a DiGraph: m / (n (n - 1)); 0 when m = 0 or n <= 1
Density(g) ==
    LET n == Cardinality(g.nodes)
        m == Cardinality(g.edges)
    IN  IF m = 0 \/ n <= 1 THEN Rat(0, 1) ELSE Norm(m, n * (n - 1))

\* nx.clustering of a node of a DiGraph: (t / 2) / (dt (dt - 1) - 2 db)
\* with t the directed triangles through u, dt its total degree and db its
\* reciprocal edges, self-loops left out; 0 when t = 0
Clustering(g, u) ==
    LET ipreds == Predecessors(g, u) \ {u}
        isuccs == Successors(g, u) \ {u}
        Through(j) ==
            LET jpreds == Predecessors(g, j) \ {j}
                jsuccs == Successors(g, j) \ {j}
            IN  Cardinality(ipreds \cap jpreds) + Cardinality(ipreds \cap jsuccs)
                  + Cardinality(isuccs \cap jpreds) + Cardinality(isuccs \cap jsuccs)
        t == IntSum([j \in ipreds |-> Through(j)]) + IntSum([j \in isuccs |-> Through(j)])
        dt == Cardinality(ipreds) + Cardinality(isuccs)
        db == Cardinality(ipreds \cap isuccs)
    IN  IF t = 0 THEN Rat(0, 1) ELSE Norm(t, 2 * (dt * (dt - 1) - 2 * db))

\* nx.average_clustering
AverageClustering(g) ==
    LET total == RatSum([u \in g.nodes |-> Clustering(g, u)])
    IN  Norm(total.n, total.d * Cardinality(g.nodes))

\* the sum of the shortest-path lengths over the ordered pairs joined by a
\* path, divided by n (n - 1)
MeanPathLength(g) ==
    LET joined == {p \in g.nodes \X g.nodes : Distance(g, p[1], p[2]) # Unreachable}
        n == Cardinality(g.nodes)
    IN  Norm(IntSum([p \in joined |-> Distance(g, p[1], p[2])]), n * (n - 1))

\* What the expression for 'avg_shortest_path' can do on a graph of more
\* than one node.  nx.average_shortest_path_length is undefined on a DiGraph
\* that is not strongly connected: the networkx releases that check strong
\* connectivity raise NetworkXError, the earlier ones check weak
\* connectivity only and return the mean over the joined pairs.  No release
\* is pinned by the repository, so both outcomes are kept.
PathLengthOutcomes(g) ==
    IF ~IsConnected(ToUndirected(g))
    THEN {[raises |-> FALSE, value |-> Inf]}
    ELSE IF IsConnected(g)
    THEN {[raises |-> FALSE, value |-> MeanPathLength(g)]}
    ELSE {[raises |-> TRUE, value |-> Inf],
          [raises |-> FALSE, value |-> MeanPathLength(g)]}

\* len(self.user_network.nodes()) > 1 with one node fewer required
ComputesCentralityOneNode(g) == Cardinality(g.nodes) > 0

\* len(self.user_network.nodes()) > 1
ComputesCentrality(g) == Cardinality(g.nodes) > 1

\* the three values update() writes onto the record of a node
CentralityFields(g, u) ==
    [degree_centrality |-> DegreeCentrality(g, u),
     closeness_centrality |-> ClosenessCentrality(g, u),
     betweenness_centrality |-> BetweennessCentrality(g, u)]

\* user_stats after the loop over the nodes that are keys of user_stats
WithCentrality(us, g) ==
    [i \in DOMAIN us |->
        IF us[i].key \in g.nodes
        THEN [key |-> us[i].key, val |-> CentralityFields(g, us[i].key) @@ us[i].val]
        ELSE us[i]]

\* the dict network_metrics of a graph of more than one node
NetworkMetrics(g, avg_shortest_path) ==
    [total_nodes |-> Cardinality(g.nodes),
     total_edges |-> Cardinality(g.edges),
     density |-> Density(g),
     avg_clustering |-> AverageClustering(g),
     avg_shortest_path |-> avg_shortest_path]

AnalyzeNetworkMetrics ==
    /\ budget > 0
    /\ budget' = budget - 1
    /\ last_call' = [op |-> "analyze_network_metrics"]
    /\ LET need_build == user_network.nodes = {}
       IN  IF need_build /\ "user_stats" \notin attrs
           THEN /\ error' = "AttributeError"
                /\ UNCHANGED <<attrs, user_stats, user_network, network_metrics>>
           ELSE LET g == IF need_build
                         THEN BuiltNetwork(user_network, followings_df, user_stats)
                         ELSE user_network
                IN  /\ user_network' = g
                    /\ IF ComputesCentrality(g)
                       THEN /\ user_stats' = WithCentrality(user_stats, g)
                            /\ \E outcome \in PathLengthOutcomes(g) :
                                 IF outcome.raises
                                 THEN /\ error' = "NetworkXError"
                                      /\ UNCHANGED <<attrs, network_metrics>>
                                 ELSE /\ error' = "none"
                                      /\ network_metrics' = NetworkMetrics(g, outcome.value)
                                      /\ attrs' = attrs \cup {"network_metrics"}
                       ELSE /\ error' = "none"
                            /\ network_metrics' = NoMetrics
                            /\ attrs' = attrs \cup {"network_metrics"}
                            /\ UNCHANGED user_stats
    /\ UNCHANGED <<tweets_df, followings_df, kol_data, kol_report, gate, fn_arg, fn_ret, stored>>

(***************************************************************************)
(* generate_kol_report                                                     *)
(***************************************************************************)
RECURSIVE InsertDescUnstable(_, _)
\* InsertDesc that puts e in front of the entries of equal score
InsertDescUnstable(sorted, e) ==
    IF sorted = <<>> THEN <<e>>
    ELSE IF Head(sorted).val.influence_score <= e.val.influence_score
         THEN <<e>> \o sorted
         ELSE <<Head(sorted)>> \o InsertDescUnstable(Tail(sorted), e)

RECURSIVE InsertDesc(_, _)
\* e put behind every entry whose score is not smaller (stable, descending)
InsertDesc(sorted, e) ==
    IF sorted = <<>> THEN <<e>>
    ELSE IF Head(sorted).val.influence_score < e.val.influence_score
         THEN <<e>> \o sorted
         ELSE <<Head(sorted)>> \o InsertDesc(Tail(sorted), e)

RECURSIVE SortFrom(_, _)
SortFrom(acc, rest) ==
    IF rest = <<>> THEN acc ELSE SortFrom(InsertDesc(acc, Head(rest)), Tail(rest))

\* sorted(kol_data.items(), key=lambda x: x[1]['influence_score'], reverse=True)
SortedKols(kd) == SortFrom(<<>>, kd)

\* the slice sorted_kols[:20]
TopSlice(sorted_kols) == SubSeq(sorted_kols, 1, Min(Len(sorted_kols), TopN))

TopEntry(item) ==
    [user_id |-> item.key,
     user_name |-> item.val.user_name,
     influence_score |-> item.val.influence_score,
     follower_count |-> item.val.follower_count,
     category |-> item.val.category,
     kol_level |-> item.val.kol_level,
     engagement_rate |-> item.val.engagement_rate]

\* the defaultdict(int) filled by `dist[stats[field]] += 1` over the items looped
CategoryCounts(items) ==
    [c \in {items[i].val.category : i \in DOMAIN items} |->
        Cardinality({i \in DOMAIN items : items[i].val.category = c})]

LevelCounts(items) ==
    [c \in {items[i].val.kol_level : i \in DOMAIN items} |->
        Cardinality({i \in DOMAIN items : items[i].val.kol_level = c})]

\* the report dict; only called with a non-empty user_stats
Report(kd, us) ==
    LET looped == TopSlice(SortedKols(kd))
    IN  [summary |-> [total_kols |-> Len(kd),
                      total_users |-> Len(us),
                      kol_percentage |-> [n |-> Len(kd) * 100, d |-> Len(us)]],
         top_kols |-> [i \in DOMAIN looped |-> TopEntry(looped[i])],
         category_distribution |-> CategoryCounts(looped),
         level_distribution |-> LevelCounts(looped)]

GenerateKolReport ==
    /\ budget > 0
    /\ budget' = budget - 1
    /\ last_call' = [op |-> "generate_kol_report"]
    /\ LET need_identify == kol_data = <<>>
           need_mock == need_identify /\ "user_stats" \notin attrs
       IN  IF need_mock /\ "tweets_df" \notin attrs
           THEN /\ error' = "AttributeError"
                /\ UNCHANGED <<attrs, user_stats, kol_data, kol_report, gate>>
           ELSE LET measured == IF need_mock THEN MeasuredStats(tweets_df) ELSE <<>>
                IN  \E seed \in SeedsIf(need_mock) :
                LET us == IF need_mock THEN MockStats(measured, seed) ELSE user_stats
                    kd == IF need_identify
                          THEN Kols(us, DefaultMinFollowers, DefaultMinEngagement)
                          ELSE kol_data
                IN  /\ user_stats' = us
                    /\ kol_data' = kd
                    /\ gate' = IF need_identify
                               THEN [min_followers |-> DefaultMinFollowers,
                                     min_engagement |-> DefaultMinEngagement]
                               ELSE gate
                    /\ IF Len(us) = 0
                       THEN /\ error' = "ZeroDivisionError"
                            /\ attrs' = attrs \cup {"user_stats"}
                            /\ UNCHANGED kol_report
                       ELSE /\ error' = "none"
                            /\ attrs' = attrs \cup {"user_stats", "kol_report"}
                            /\ kol_report' = Report(kd, us)
    /\ UNCHANGED <<tweets_df, followings_df, user_network, network_metrics, fn_arg, fn_ret, stored>>

(***************************************************************************)
(* save_results                                                            *)
(***************************************************************************)
\* the value None
None == [is_none |-> TRUE]

\* one element of save_data['top_kols']
SavedEntry(item) ==
    [user_id |-> item.key,
     user_name |-> item.val.user_name,
     influence_score |-> item.val.influence_score,
     category |-> item.val.category,
     kol_level |-> item.val.kol_level,
     follower_count |-> item.val.follower_count,
     engagement_rate |-> item.val.engagement_rate]

\* the list filled from list(self.kol_data.items())[:50]; [] for an empty kol_data
SavedTopKols(kd) ==
    LET items == SubSeq(kd, 1, Min(Len(kd), SaveLimit))
    IN  [i \in DOMAIN items |-> SavedEntry(items[i])]

\* the dict written to the file (json.dump with default=str)
SaveData(timestamp) ==
    [written |-> TRUE,
     analysis_timestamp |-> timestamp,
     kol_report |-> IF "kol_report" \in attrs THEN kol_report ELSE None,
     network_metrics |-> IF "network_metrics" \in attrs THEN network_metrics ELSE None,
     top_kols |-> SavedTopKols(kol_data)]

SaveResults ==
    /\ budget > 0
    /\ budget' = budget - 1
    /\ last_call' = [op |-> "save_results"]
    /\ error' = "none"
    /\ save_data' = SaveData(now)
    /\ UNCHANGED <<attrs, tweets_df, followings_df, user_stats, kol_data, user_network,
                   kol_report, network_metrics, gate, fn_arg, fn_ret,
                   db_tweets, db_users, task_results, now>>

(***************************************************************************)
(* The calls a client can make, with the arguments tried                   *)
(***************************************************************************)
ThresholdChoices ==
    {[min_followers |-> DefaultMinFollowers, min_engagement |-> DefaultMinEngagement],
     [min_followers |-> 5000, min_engagement |-> [n |-> 1, d |-> 2]],
     [min_followers |-> 2000000, min_engagement |-> DefaultMinEngagement]}

Next ==
    \/ \E ds \in Datasets : LoadData(ds.tweets, ds.followings)
    \/ GenerateMockKolData
    \/ \E t \in ThresholdChoices : IdentifyKols(t.min_followers, t.min_engagement)
    \/ BuildUserNetwork
    \/ GenerateKolReport

Spec == Init /\ [][Next]_vars

\* the calls that build and measure the graph
NextGraph ==
    \/ \E ds \in Datasets : LoadData(ds.tweets, ds.followings)
    \/ GenerateMockKolData
    \/ BuildUserNetwork
    \/ AnalyzeNetworkMetrics

SpecGraph == InitGraph /\ [][NextGraph]_vars

\* the same analyzer on the large file
NextMany ==
    \/ \E ds \in DatasetsMany : LoadData(ds.tweets, ds.followings)
    \/ GenerateMockKolData
    \/ \E t \in ThresholdChoices : IdentifyKols(t.min_followers, t.min_engagement)
    \/ GenerateKolReport

SpecMany == InitMany /\ [][NextMany]_vars

\* the whole pipeline on the degenerate files
NextDegenerate ==
    \/ \E ds \in DatasetsDegenerate : LoadData(ds.tweets, ds.followings)
    \/ GenerateMockKolData
    \/ \E t \in ThresholdChoices : IdentifyKols(t.min_followers, t.min_engagement)
    \/ BuildUserNetwork
    \/ AnalyzeNetworkMetrics
    \/ GenerateKolReport

SpecDegenerate == InitDegenerate /\ [][NextDegenerate]_vars

\* load_data and the four stages that follow it, on the ordinary files
NextPipeline ==
    \/ \E ds \in Datasets : LoadData(ds.tweets, ds.followings)
    \/ \E t \in ThresholdChoices : IdentifyKols(t.min_followers, t.min_engagement)
    \/ BuildUserNetwork
    \/ AnalyzeNetworkMetrics
    \/ GenerateKolReport

SpecPipeline == InitPipeline /\ [][NextPipeline]_vars

\* identification and saving on a file of more than SaveLimit accounts
NextSave ==
    \/ \E ds \in DatasetsSave : LoadData(ds.tweets, ds.followings)
    \/ \E t \in ThresholdChoices : IdentifyKols(t.min_followers, t.min_engagement)
    \/ SaveResults

SpecSave == InitSave /\ [][NextSave]_vars

\* loading and augmenting files of about AccountLimit accounts
NextLimit ==
    \/ \E ds \in DatasetsLimit : LoadData(ds.tweets, ds.followings)
    \/ GenerateMockKolData

SpecLimit == InitLimit /\ [][NextLimit]_vars

\* the stages run on account records the client has set
NextScenario ==
    \/ \E t \in ThresholdChoices : IdentifyKols(t.min_followers, t.min_engagement)
    \/ BuildUserNetwork
    \/ AnalyzeNetworkMetrics
    \/ GenerateKolReport

SpecScenario == InitScenario /\ [][NextScenario]_vars

(***************************************************************************)
(* load_data with the chunk size of read_csv as a parameter, followed by   *)
(* the measured aggregates generate_mock_kol_data takes from tweets_df     *)
(***************************************************************************)
\* one post of an account, with 1 like, 2 retweets and 3 replies
Post(uid, ts) == Row(uid, NameZed, "t", ts, 10, 1, 2, 3)

\* files of a few rows: numeric ids only; numeric ids and a missing one;
\* names only; numeric ids, a missing one and a name
BatchFiles ==
    {<<Post("7", 1), Post("8", 2), Post("7", 3), Post("8", 4), Post("7", 5)>>,
     <<Post("7", 1), Post("8", 2), Post(NaN, 3), Post("7", 4), Post("8", 5), Post("7", 6)>>,
     <<Post("bob", 1), Post("eve", 2), Post("bob", 3), Row("eve", NameZed, NaN, 4, 1, 1, 1, 1)>>,
     <<Post("7", 1), Post(NaN, 2), Post("7", 3), Post("bob", 4)>>}

BatchSizes == 1..MaxBatch \cup {ChunkSize}

InitBatch ==
    /\ Constructed
    /\ NothingStored
    /\ budget = 0
    /\ fn_ret = NoCall
    /\ \E file \in BatchFiles, chunksize \in BatchSizes :
          fn_arg = [file |-> file, chunksize |-> chunksize]

\* read the file in chunks of fn_arg.chunksize rows, preprocess, aggregate
CallLoadInBatches ==
    /\ fn_ret.called = "none"
    /\ fn_ret' = [called |-> "load_data",
                  stats |-> MeasuredStats(LoadedTweets(fn_arg.file, fn_arg.chunksize))]
    /\ UNCHANGED <<attrs, tweets_df, followings_df, user_stats, kol_data, user_network,
                   kol_report, network_metrics, error, last_call, gate, fn_arg, budget, stored>>

NextBatch == CallLoadInBatches

SpecBatch == InitBatch /\ [][NextBatch]_vars

(***************************************************************************)
(* The scoring functions called directly on an account record or a score   *)
(***************************************************************************)
\* account records tried: below, at and above every cap
ScoreInputs ==
    {[NoStats EXCEPT !.follower_count = f, !.engagement_rate = e, !.reach_score = r,
                     !.tweet_count = t, !.verified = v] :
        f \in {0, 5000, 750000, 1000000, 2000000},
        e \in {Rat(0, 1), Rat(1, 10), Rat(3, 10), Rat(1, 3), Rat(5, 1)},
        r \in {Rat(0, 1), Rat(123456, 1), Rat(200000, 1), Rat(5000000, 3)},
        t \in {0, 10, 10000, 20000},
        v \in BOOLEAN}

\* scores tried, in hundredths: around every tier boundary
LevelInputs == {0, 3999, 4000, 4001, 5999, 6000, 6001, 7999, 8000, 8001, 13200}

InitScore ==
    /\ Constructed
    /\ NothingStored
    /\ budget = 0
    /\ fn_ret = NoCall
    /\ \/ \E st \in ScoreInputs : fn_arg = [stats |-> st, score |-> 0]
       \/ \E sc \in LevelInputs : fn_arg = [stats |-> NoStats, score |-> sc]

CallCalculateInfluenceScore ==
    /\ fn_ret.called = "none"
    /\ fn_arg.stats # NoStats
    /\ fn_ret' = [called |-> "_calculate_influence_score",
                  score |-> CalculateInfluenceScore(fn_arg.stats),
                  level |-> "none"]
    /\ UNCHANGED <<attrs, tweets_df, followings_df, user_stats, kol_data, user_network,
                   kol_report, network_metrics, error, last_call, gate, fn_arg, budget, stored>>

CallDetermineKolLevel ==
    /\ fn_ret.called = "none"
    /\ fn_arg.stats = NoStats
    /\ fn_ret' = [called |-> "_determine_kol_level",
                  score |-> fn_arg.score,
                  level |-> DetermineKolLevel(fn_arg.score)]
    /\ UNCHANGED <<attrs, tweets_df, followings_df, user_stats, kol_data, user_network,
                   kol_report, network_metrics, error, last_call, gate, fn_arg, budget, stored>>

NextScore == CallCalculateInfluenceScore \/ CallDetermineKolLevel

SpecScore == InitScore /\ [][NextScore]_vars

(***************************************************************************)
(* _categorize_kol called directly on an account record                    *)
(***************************************************************************)
\* pieces of display names: keywords of every group in either case, halves
\* of keywords, and pieces that hold no keyword
NameParts ==
    {<<>>, <<"B","T","C">>, <<"a","i">>, <<"A","r","t">>,
     <<"t","r","a","d","i","n","g">>, <<"T","e","c","h">>, <<"t","e">>, <<"c","h">>,
     <<"M","u","s","i","c">>, <<"Z","e">>, <<"t","h">>, <<"I","N","V","E","S","T">>,
     <<"_">>}

\* display names tried: every piece and every two pieces put together
CategoryNames == {a \o b : a \in NameParts, b \in NameParts}

InitCategory ==
    /\ Constructed
    /\ NothingStored
    /\ budget = 0
    /\ fn_ret = NoCall
    /\ \E name \in CategoryNames :
         fn_arg = [stats |-> [NoStats EXCEPT !.user_name = name], score |-> 0]

CallCategorizeKol ==
    /\ fn_ret.called = "none"
    /\ fn_ret' = [called |-> "_categorize_kol", score |-> 0, level |-> "none",
                  category |-> CategorizeKol(fn_arg.stats)]
    /\ UNCHANGED <<attrs, tweets_df, followings_df, user_stats, kol_data, user_network,
                   kol_report, network_metrics, error, last_call, gate, fn_arg, budget, stored>>

NextCategory == CallCategorizeKol

SpecCategory == InitCategory /\ [][NextCategory]_vars

(***************************************************************************)
(* TwitterDataCollector.  A tweet is a TweetData reduced to the fields the *)
(* hash and the constraints of the table read; times are in seconds, and   *)
(* isoformat() of a time is its decimal string.  A row of the table tweets *)
(* is [tweet_id, data_hash, created_at, collected_at]; tweet_id and        *)
(* data_hash are UNIQUE columns.                                           *)
(***************************************************************************)
Hour == 3600

Day == 24 * Hour

Tweet(tweet_id, text, user_id, created_at) ==
    [tweet_id |-> tweet_id, text |-> text, user_id |-> user_id, created_at |-> created_at]

\* f"{tweet.tweet_id}_{tweet.text}_{tweet.user_id}_{tweet.created_at}"
TweetContent(tweet) ==
    tweet.tweet_id \o "_" \o tweet.text \o "_" \o tweet.user_id \o "_"
        \o ToString(tweet.created_at)

\* hashlib.md5(content.encode()).hexdigest(): one digest per content
Md5(content) == "md5(" \o content \o ")"

\* _generate_tweet_hash
GenerateTweetHash(tweet) == Md5(TweetContent(tweet))

\* One pass of the loop of _save_tweets in the transaction tx.  INSERT ... ON
\* CONFLICT (data_hash) DO NOTHING inserts nothing when the hash is stored;
\* a stored tweet_id under another hash violates UNIQUE(tweet_id), which
\* aborts the transaction: that execute and every later one raise, and the
\* except clause goes on to the next tweet without counting.
SaveOne(tx, tweet, t) ==
    LET data_hash == GenerateTweetHash(tweet)
    IN  IF tx.aborted THEN tx
        ELSE IF \E r \in tx.rows : r.data_hash = data_hash
             THEN [tx EXCEPT !.saved_count = @ + 1]
        ELSE IF \E r \in tx.rows : r.tweet_id = tweet.tweet_id
             THEN [tx EXCEPT !.aborted = TRUE]
        ELSE [tx EXCEPT !.rows = @ \cup {[tweet_id |-> tweet.tweet_id,
                                           data_hash |-> data_hash,
                                           created_at |-> tweet.created_at,
                                           collected_at |-> t]},
                        !.saved_count = @ + 1]

RECURSIVE SaveLoop(_, _, _)
SaveLoop(tx, tweets, t) ==
    IF tweets = <<>> THEN tx
    ELSE SaveLoop(SaveOne(tx, Head(tweets), t), Tail(tweets), t)

\* _save_tweets at time t on the table rows: the table after commit() (an
\* aborted transaction is rolled back by it) and the count returned
SaveTweetsResult(rows, tweets, t) ==
    LET tx == SaveLoop([rows |-> rows, saved_count |-> 0, aborted |-> FALSE], tweets, t)
    IN  [rows |-> IF tx.aborted THEN rows ELSE tx.rows,
         saved_count |-> tx.saved_count]

\* tweets a caller hands to _save_tweets: t1; t1 with another text under the
\* same tweet_id; another tweet; and two tweets whose contents are the same
\* string although their ids differ
TweetPool ==
    {Tweet("a", "x", "u", 5), Tweet("a", "y", "u", 5), Tweet("b", "x", "u", 6),
     Tweet("c_d", "x", "u", 7), Tweet("c", "d_x", "u", 7)}

\* the lists tried: one tweet, or two (also the same tweet twice)
TweetBatches == {<<a>> : a \in TweetPool} \cup {<<a, b>> : a \in TweetPool, b \in TweetPool}

SaveTweets(tweets) ==
    /\ budget > 0
    /\ budget' = budget - 1
    /\ last_call' = [op |-> "_save_tweets", tweets |-> tweets]
    /\ error' = "none"
    /\ LET result == SaveTweetsResult(db_tweets, tweets, now)
       IN  /\ db_tweets' = result.rows
           /\ fn_ret' = [called |-> "_save_tweets", score |-> 0, level |-> "none",
                         saved_count |-> result.saved_count]
    /\ UNCHANGED <<attrs, tweets_df, followings_df, user_stats, kol_data, user_network,
                   kol_report, network_metrics, gate, fn_arg,
                   save_data, db_users, task_results, now>>

\* tweets generated per user by _generate_mock_tweets
MockTweetCount == 5

\* _generate_mock_tweets at time t
GenerateMockTweets(user_id, t) ==
    [k \in 1..MockTweetCount |->
        LET i == k - 1
        IN  Tweet(user_id \o "_" \o ToString(i) \o "_" \o ToString(t),
                  "user " \o user_id \o " tweet " \o ToString(i + 1),
                  user_id,
                  (t - Day) + i * 4 * Hour)]

\* int(user_id) in _generate_mock_user does not raise ValueError
ParsesAsInt(user_id) == user_id \in NumericIds

\* One pass of the loop of collect_kol_tweets: the tweets of the user are
\* saved and counted; the user is saved and counted when _fetch_user_info
\* returns one (it returns None when _generate_mock_user raises); sleep(1).
CollectOne(c, user_id) ==
    LET result == SaveTweetsResult(c.rows, GenerateMockTweets(user_id, c.t), c.t)
        has_info == ParsesAsInt(user_id)
    IN  [rows |-> result.rows,
         users |-> IF has_info THEN c.users \cup {user_id} ELSE c.users,
         total_tweets |-> c.total_tweets + result.saved_count,
         total_users |-> c.total_users + (IF has_info THEN 1 ELSE 0),
         t |-> c.t + 1]

RECURSIVE CollectLoop(_, _)
CollectLoop(c, kol_users) ==
    IF kol_users = <<>> THEN c
    ELSE CollectLoop(CollectOne(c, Head(kol_users)), Tail(kol_users))

\* collect_kol_tweets started at time t
Collected(rows, users, kol_users, t) ==
    CollectLoop([rows |-> rows, users |-> users, total_tweets |-> 0,
                 total_users |-> 0, t |-> t], kol_users)

\* the user lists collect_kol_tweets is called with
KolUserLists == {<<"7">>, <<"7", "user_001">>, <<"7", "7">>}

CollectKolTweets(kol_users) ==
    /\ budget > 0
    /\ budget' = budget - 1
    /\ last_call' = [op |-> "collect_kol_tweets", kol_users |-> kol_users]
    /\ error' = "none"
    /\ LET c == Collected(db_tweets, db_users, kol_users, now)
       IN  /\ db_tweets' = c.rows
           /\ db_users' = c.users
           /\ now' = c.t
           /\ fn_ret' = [called |-> "collect_kol_tweets", score |-> 0, level |-> "none",
                         total_tweets |-> c.total_tweets, total_users |-> c.total_users]
    /\ UNCHANGED <<attrs, tweets_df, followings_df, user_stats, kol_data, user_network,
                   kol_report, network_metrics, gate, fn_arg, save_data, task_results>>

\* a collector whose tables are empty, some time after the epoch
InitCollector ==
    /\ Constructed
    /\ NoDirectCall
    /\ save_data = NoSave
    /\ db_tweets = {}
    /\ db_users = {}
    /\ task_results = NoFile
    /\ now = 100 * Day
    /\ budget = MaxCallsCollector

NextCollector ==
    \/ \E tweets \in TweetBatches : SaveTweets(tweets)
    \/ \E kol_users \in KolUserLists : CollectKolTweets(kol_users)

SpecCollector == InitCollector /\ [][NextCollector]_vars

(***************************************************************************)
(* TwitterDataScheduler: the two tasks and the file of their results       *)
(***************************************************************************)
\* _save_task_result: "if len(results) > 100: results = results[-100:]"
HistoryLimit == 100

\* Trimmed that keeps the oldest records
TrimmedOldest(results) ==
    IF Len(results) > HistoryLimit THEN SubSeq(results, 1, HistoryLimit) ELSE results

\* the list after the trimming step
Trimmed(results) ==
    IF Len(results) > HistoryLimit
    THEN SubSeq(results, Len(results) - HistoryLimit + 1, Len(results))
    ELSE results

\* the file after _save_task_result; a missing file is read as []
SaveTaskResult(file, task_result) ==
    [exists |-> TRUE,
     results |-> Trimmed(Append(IF file.exists THEN file.results ELSE <<>>, task_result))]

\* self.kol_users, as loaded from enhanced_kol_profiles.json
KolUsers == <<"7", "user_001">>

\* COUNT(*) FROM tweets WHERE DATE(collected_at) = today
TodayTweets(rows, t) ==
    Cardinality({r \in rows : r.collected_at \div Day = t \div Day})

\* the time that passes before the scheduler starts the next task
Elapsed == {Day, 40 * Day}

\* daily_collection_task, started `elapsed` after the last task.  Without a
\* database connection every user of collect_kol_tweets fails and is
\* skipped, and get_collection_stats raises: the task is recorded as failed.
DailyCollectionTask(db_up, elapsed) ==
    /\ budget > 0
    /\ budget' = budget - 1
    /\ last_call' = [op |-> "daily_collection_task"]
    /\ error' = "none"
    /\ LET start_time == now + elapsed
           c == Collected(db_tweets, db_users, KolUsers, start_time)
       IN  IF db_up
           THEN /\ db_tweets' = c.rows
                /\ db_users' = c.users
                /\ now' = c.t
                /\ task_results' =
                     SaveTaskResult(task_results,
                        [task_name |-> "daily_collection",
                         execution_time |-> c.t - start_time,
                         tweets_collected |-> c.total_tweets,
                         users_updated |-> c.total_users,
                         total_tweets |-> Cardinality(c.rows),
                         total_users |-> Cardinality(c.users),
                         total_kols |-> Cardinality(c.users),
                         today_tweets |-> TodayTweets(c.rows, c.t),
                         status |-> "success",
                         timestamp |-> c.t])
           ELSE /\ now' = start_time
                /\ task_results' =
                     SaveTaskResult(task_results,
                        [task_name |-> "daily_collection",
                         status |-> "failed",
                         error |-> "connection already closed",
                         timestamp |-> start_time])
                /\ UNCHANGED <<db_tweets, db_users>>
    /\ UNCHANGED <<attrs, tweets_df, followings_df, user_stats, kol_data, user_network,
                   kol_report, network_metrics, gate, fn_arg, fn_ret, save_data>>

\* cleanup_old_data(days=30): DELETE FROM tweets WHERE created_at < cutoff
\* (no user is deleted: every saved user has is_kol = TRUE)
CleanedUp(rows, t) == {r \in rows : ~(r.created_at < t - 30 * Day)}

\* weekly_cleanup_task
WeeklyCleanupTask(db_up, elapsed) ==
    /\ budget > 0
    /\ budget' = budget - 1
    /\ last_call' = [op |-> "weekly_cleanup_task"]
    /\ error' = "none"
    /\ LET start_time == now + elapsed
       IN  /\ now' = start_time
           /\ IF db_up
              THEN /\ db_tweets' = CleanedUp(db_tweets, start_time)
                   /\ task_results' =
                        SaveTaskResult(task_results,
                           [task_name |-> "weekly_cleanup",
                            execution_time |-> 0,
                            status |-> "success",
                            timestamp |-> start_time])
              ELSE /\ task_results' =
                        SaveTaskResult(task_results,
                           [task_name |-> "weekly_cleanup",
                            status |-> "failed",
                            error |-> "connection already closed",
                            timestamp |-> start_time])
                   /\ UNCHANGED db_tweets
    /\ UNCHANGED <<attrs, tweets_df, followings_df, user_stats, kol_data, user_network,
                   kol_report, network_metrics, gate, fn_arg, fn_ret, save_data, db_users>>

\* the file after n daily tasks, one a day, that found no database
FailedHistory(n) ==
    [exists |-> TRUE,
     results |-> [k \in 1..n |-> [task_name |-> "daily_collection",
                                  status |-> "failed",
                                  error |-> "connection already closed",
                                  timestamp |-> k * Day]]]

\* lengths of the history the scheduler starts with: none, and up to the limit
HistoryLengths == {0, HistoryLimit - 2, HistoryLimit - 1, HistoryLimit}

InitScheduler ==
    /\ Constructed
    /\ NoDirectCall
    /\ save_data = NoSave
    /\ db_tweets = {}
    /\ db_users = {}
    /\ budget = MaxTasks
    /\ \E n \in HistoryLengths :
         /\ task_results = (IF n = 0 THEN NoFile ELSE FailedHistory(n))
         /\ now = n * Day

NextScheduler ==
    \/ \E db_up \in BOOLEAN, elapsed \in Elapsed : DailyCollectionTask(db_up, elapsed)
    \/ \E db_up \in BOOLEAN, elapsed \in Elapsed : WeeklyCleanupTask(db_up, elapsed)

SpecScheduler == InitScheduler /\ [][NextScheduler]_vars

(***************************************************************************)
(* Properties of the scoring functions (SpecScore)                         *)
(***************************************************************************)
ScoreCalled == fn_ret.called = "_calculate_influence_score"

LevelCalled == fn_ret.called = "_determine_kol_level"

\* C3: for an account record with non-negative fields, the score returned
\* by _calculate_influence_score lies in [0, 132], and each component is
\* capped (follower 40, engagement 30, reach 20, activity 10) before the sum.
C3_ScoreBounds ==
    ScoreCalled =>
        LET st == fn_arg.stats
            L == ScoreL(st)
        IN  /\ 0 <= fn_ret.score /\ fn_ret.score <= 13200
            /\ 0 <= FollowerScore(st, L) /\ FollowerScore(st, L) <= 40 * 50000 * L
            /\ 0 <= EngagementScore(st, L) /\ EngagementScore(st, L) <= 30 * 50000 * L
            /\ 0 <= ReachScore(st, L) /\ ReachScore(st, L) <= 20 * 50000 * L
            /\ 0 <= ActivityScore(st, L) /\ ActivityScore(st, L) <= 10 * 50000 * L

\* every cap is exceeded by the raw value: a verified record then gets
\* (40 + 30 + 20 + 10) * 1.2 = 120, the largest score there is
C3_Witness ==
    /\ ScoreCalled
    /\ fn_arg.stats.follower_count > 1000000
    /\ fn_arg.stats.engagement_rate = Rat(5, 1)
    /\ fn_arg.stats.reach_score = Rat(5000000, 3)
    /\ fn_arg.stats.tweet_count > 10000
    /\ fn_arg.stats.verified
    /\ fn_ret.score = 12000

\* C4 as stated: the stored score of a verified record is exactly 1.2 times
\* the stored score of the record that differs only in being unverified.
C4_ExactBonus ==
    (ScoreCalled /\ fn_arg.stats.verified) =>
        10 * fn_ret.score
            = 12 * CalculateInfluenceScore([fn_arg.stats EXCEPT !.verified = FALSE])

\* C4 amended: both scores are rounded to 2 decimals after the bonus is
\* applied, so the stored verified score differs from 1.2 times the stored
\* unverified score by at most 0.011 (here in thousandths).
C4_BonusUpToRounding ==
    (ScoreCalled /\ fn_arg.stats.verified) =>
        LET d == 10 * fn_ret.score
                   - 12 * CalculateInfluenceScore([fn_arg.stats EXCEPT !.verified = FALSE])
        IN  -11 <= d /\ d <= 11

\* a verified record whose stored score is not 1.2 times the unverified one
C4_Witness ==
    /\ ScoreCalled
    /\ fn_arg.stats.verified
    /\ fn_ret.score > 0
    /\ 10 * fn_ret.score
         # 12 * CalculateInfluenceScore([fn_arg.stats EXCEPT !.verified = FALSE])

\* C5: _determine_kol_level returns exactly one of four tiers, lower bounds
\* inclusive: Tier 1 iff score >= 80, Tier 2 iff 60 <= score < 80,
\* Tier 3 iff 40 <= score < 60, Tier 4 iff score < 40.
C5_TierThresholds ==
    LevelCalled =>
        /\ fn_ret.level \in {"Tier 1", "Tier 2", "Tier 3", "Tier 4"}
        /\ fn_ret.level = "Tier 1" <=> fn_ret.score >= 8000
        /\ fn_ret.level = "Tier 2" <=> (6000 <= fn_ret.score /\ fn_ret.score < 8000)
        /\ fn_ret.level = "Tier 3" <=> (4000 <= fn_ret.score /\ fn_ret.score < 6000)
        /\ fn_ret.level = "Tier 4" <=> fn_ret.score < 4000

\* a score on a boundary is put in the tier the boundary opens
C5_Witness ==
    /\ LevelCalled
    /\ fn_ret.score = 6000
    /\ fn_ret.level = "Tier 2"

(***************************************************************************)
(* Properties of the pipeline (Spec, SpecGraph, SpecMany)                  *)
(***************************************************************************)
Identified == last_call.op = "identify_kols" /\ error = "none"

Built == last_call.op = "build_user_network" /\ error = "none"

Reported == last_call.op = "generate_kol_report" /\ error = "none"

TopKols == kol_report.top_kols

\* the three conditions of the gate, spelled out
PassesGate(stats, min_followers, min_engagement) ==
    /\ stats.follower_count >= min_followers
    /\ stats.engagement_rate.n * min_engagement.d
         >= min_engagement.n * stats.engagement_rate.d
    /\ stats.tweet_count >= 10

\* C1 as stated: whatever thresholds identify_kols was called with, no entry
\* of a report's top_kols has follower_count < 10,000.
C1_GateExclusivity ==
    \A i \in DOMAIN TopKols : TopKols[i].follower_count >= 10000

\* C1 amended: no entry of the top_kols of a report just generated has a
\* follower_count below the min_followers of the identify_kols run that
\* produced kol_data (10,000 when that run used the default).
C1_GateOfIdentifyRun ==
    Reported => \A i \in DOMAIN TopKols : TopKols[i].follower_count >= gate.min_followers

\* a report, made after identify_kols(min_followers=5000), that lists an
\* account of fewer than 10,000 followers
C1_Witness ==
    /\ Reported
    /\ gate.min_followers = 5000
    /\ \E i \in DOMAIN TopKols : TopKols[i].follower_count < 10000

\* C2: after identify_kols(min_followers, min_engagement), kol_data holds
\* exactly the accounts of user_stats that pass all three conditions; only
\* they carry influence_score, category and kol_level; and an account that
\* fails a condition is in no field of the report generated next.
C2_QualificationGate ==
    [][/\ (last_call'.op = "identify_kols" /\ error' = "none") =>
            /\ Keys(kol_data') =
                 {user_stats'[i].key :
                    i \in {j \in DOMAIN user_stats' :
                             PassesGate(user_stats'[j].val, last_call'.min_followers,
                                        last_call'.min_engagement)}}
            /\ \A i \in DOMAIN user_stats' :
                 "influence_score" \notin DOMAIN user_stats'[i].val
            /\ \A i \in DOMAIN kol_data' :
                 {"influence_score", "category", "kol_level"} \subseteq DOMAIN kol_data'[i].val
       /\ (Identified /\ last_call'.op = "generate_kol_report" /\ error' = "none") =>
            \A i \in DOMAIN kol_report'.top_kols :
               PassesGate(Get(user_stats, kol_report'.top_kols[i].user_id),
                          last_call.min_followers, last_call.min_engagement)
      ]_vars

TierNumber(kol_level) ==
    CASE kol_level = "Tier 1" -> 1
      [] kol_level = "Tier 2" -> 2
      [] kol_level = "Tier 3" -> 3
      [] kol_level = "Tier 4" -> 4

\* C6: of two qualified accounts of kol_data, the one with the greater
\* influence_score is never in a tier of greater number.
C6_TierMonotonicity ==
    \A i, j \in DOMAIN kol_data :
        kol_data[i].val.influence_score > kol_data[j].val.influence_score
            => TierNumber(kol_data[i].val.kol_level) <= TierNumber(kol_data[j].val.kol_level)

\* two qualified accounts of different scores in different tiers
C6_Witness ==
    \E i, j \in DOMAIN kol_data :
        /\ kol_data[i].val.influence_score > kol_data[j].val.influence_score
        /\ TierNumber(kol_data[i].val.kol_level) < TierNumber(kol_data[j].val.kol_level)

\* C7: after build_user_network the graph has the edge (A,B) exactly when a
\* follow record (A,B) exists with A and B both keys of user_stats.
C7_EdgeAdmission ==
    Built =>
        user_network.edges =
            {<<followings_df[i].user_id, followings_df[i].following_user_id>> :
                i \in {j \in DOMAIN followings_df :
                         /\ followings_df[j].user_id \in Keys(user_stats)
                         /\ followings_df[j].following_user_id \in Keys(user_stats)}}

\* C8: after build_user_network the node set of user_network is exactly the
\* key set of the current user_stats.
C8_NodeSet == Built => user_network.nodes = Keys(user_stats)

\* position of an account in kol_data (its insertion order)
KolIndex(user_id) == CHOOSE i \in DOMAIN kol_data : kol_data[i].key = user_id

\* C9: top_kols is kol_data in descending order of influence_score, cut to
\* min(20, number of qualified accounts) entries, accounts of equal score in
\* the insertion order of kol_data.
C9_Ranking ==
    Reported =>
        /\ Len(TopKols) = Min(20, Len(kol_data))
        /\ \A i \in DOMAIN TopKols :
             /\ HasKey(kol_data, TopKols[i].user_id)
             /\ TopKols[i].influence_score
                  = Get(kol_data, TopKols[i].user_id).influence_score
        /\ \A i, j \in DOMAIN TopKols :
             i < j => /\ TopKols[i].influence_score >= TopKols[j].influence_score
                      /\ TopKols[i].user_id # TopKols[j].user_id
                      /\ TopKols[i].influence_score = TopKols[j].influence_score
                           => KolIndex(TopKols[i].user_id) < KolIndex(TopKols[j].user_id)
        /\ \A k \in DOMAIN kol_data :
             (\A i \in DOMAIN TopKols : TopKols[i].user_id # kol_data[k].key) =>
                \A i \in DOMAIN TopKols :
                   \/ kol_data[k].val.influence_score < TopKols[i].influence_score
                   \/ /\ kol_data[k].val.influence_score = TopKols[i].influence_score
                      /\ KolIndex(TopKols[i].user_id) < k

\* a report cut to 20 of more qualified accounts, with a tie inside the list
\* and a tie across the cut
C9_Witness ==
    /\ Reported
    /\ Len(kol_data) > 20
    /\ Len(TopKols) = 20
    /\ \E i, j \in DOMAIN TopKols :
         i < j /\ TopKols[i].influence_score = TopKols[j].influence_score
    /\ \E k \in DOMAIN kol_data :
         /\ \A i \in DOMAIN TopKols : TopKols[i].user_id # kol_data[k].key
         /\ kol_data[k].val.influence_score = TopKols[20].influence_score

RECURSIVE SumCounts(_)
SumCounts(dist) ==
    IF DOMAIN dist = {} THEN 0
    ELSE LET c == CHOOSE x \in DOMAIN dist : TRUE
         IN  dist[c] + SumCounts([y \in DOMAIN dist \ {c} |-> dist[y]])

\* C10: the counts of level_distribution and of category_distribution each
\* sum to summary.total_kols, also when more than 20 accounts qualify.
C10_DistributionTotals ==
    Reported =>
        /\ SumCounts(kol_report.level_distribution) = kol_report.summary.total_kols
        /\ SumCounts(kol_report.category_distribution) = kol_report.summary.total_kols

(***************************************************************************)
(* Degenerate inputs and the report (Spec, SpecDegenerate)                 *)
(***************************************************************************)
\* C11: when user_stats is not empty and identify_kols has just found that
\* no account passes its gate (kol_data is empty), generate_kol_report
\* returns, without raising, a report with total_kols = 0,
\* kol_percentage = 0, an empty top_kols and empty distributions.
C11_EmptyQualifiedSet ==
    [][(/\ Identified
        /\ kol_data = <<>>
        /\ user_stats # <<>>
        /\ last_call'.op = "generate_kol_report") =>
            /\ error' = "none"
            /\ kol_report'.summary.total_kols = 0
            /\ kol_report'.summary.kol_percentage.n = 0
            /\ kol_report'.top_kols = <<>>
            /\ SumCounts(kol_report'.level_distribution) = 0
            /\ SumCounts(kol_report'.category_distribution) = 0
      ]_vars

Analyzed == last_call.op = "analyze_network_metrics" /\ error = "none"

\* the stages of the pipeline after load_data
Stages ==
    {"generate_mock_kol_data", "identify_kols", "build_user_network",
     "analyze_network_metrics", "generate_kol_report"}

\* a report without any qualified account
EmptyReport(report) ==
    /\ report.summary.total_kols = 0
    /\ report.top_kols = <<>>
    /\ SumCounts(report.level_distribution) = 0
    /\ SumCounts(report.category_distribution) = 0

\* C12: on an input with zero accounts (user_stats is the empty dict) no
\* stage of generate_mock_kol_data, identify_kols, build_user_network,
\* analyze_network_metrics, generate_kol_report raises, and
\* generate_kol_report yields a well-formed empty report.
C12_NoHardFailure ==
    [][(/\ last_call'.op \in Stages
        /\ "tweets_df" \in attrs
        /\ "user_stats" \in attrs'
        /\ user_stats' = <<>>) =>
            /\ error' = "none"
            /\ last_call'.op = "generate_kol_report" =>
                 /\ "kol_report" \in attrs'
                 /\ EmptyReport(kol_report')
      ]_vars

C14_DegenerateSafety ==
    (Len(user_stats) = 1 /\ user_network.edges = {}) =>
        /\ error # "ZeroDivisionError"
        /\ (Analyzed /\ Cardinality(user_network.nodes) = 1) =>
              /\ "total_nodes" \in DOMAIN network_metrics
              /\ network_metrics.total_nodes = 1
        /\ (Reported /\ TopKols = <<>>) =>
              ~PassesGate(user_stats[1].val, gate.min_followers, gate.min_engagement)

(***************************************************************************)
(* Path length of the graph (SpecGraph)                                    *)
(***************************************************************************)
\* every node is joined to every other by a directed path, so that every
\* shortest-path length the average is taken over exists
PathLengthDefined(g) ==
    \A s, t \in g.nodes : t \in Within(g, s, Cardinality(g.nodes))

\* joined when the direction of the edges is ignored
WeaklyConnected(g) ==
    \A s, t \in g.nodes : t \in Within(ToUndirected(g), s, Cardinality(g.nodes))

\* C15: on a graph of more than one node analyze_network_metrics returns
\* without raising; avg_shortest_path is infinite, and never 0, when the
\* undirected graph is not connected; and it is finite only when the path
\* length is well defined, which it is not on a directed graph that is
\* weakly but not strongly connected (A->B, B->C).
C15_PathLength ==
    (/\ last_call.op = "analyze_network_metrics"
     /\ "user_stats" \in attrs
     /\ Cardinality(user_network.nodes) > 1) =>
        /\ error = "none"
        /\ ~WeaklyConnected(user_network) =>
              /\ network_metrics.avg_shortest_path = Inf
              /\ network_metrics.avg_shortest_path.n # 0
        /\ network_metrics.avg_shortest_path # Inf => PathLengthDefined(user_network)

(***************************************************************************)
(* The end-to-end scenario (SpecScenario)                                  *)
(***************************************************************************)
DefaultGate ==
    gate = [min_followers |-> DefaultMinFollowers, min_engagement |-> DefaultMinEngagement]

\* C16: on the accounts A, B, C with A -> B and B -> C, identify, build,
\* analyze and report with the default thresholds raise in no stage and
\* give: only A qualified, top_kols = [A], a graph of 3 nodes and 2 edges,
\* total_kols = 1 and kol_percentage = 100/3.
C16_Scenario ==
    /\ error = "none"
    /\ (kol_data # <<>> /\ DefaultGate) => Keys(kol_data) = {"A"}
    /\ user_network.nodes # {} =>
          /\ Cardinality(user_network.nodes) = 3
          /\ Cardinality(user_network.edges) = 2
    /\ (Reported /\ DefaultGate) =>
          /\ Len(TopKols) = 1
          /\ TopKols[1].user_id = "A"
          /\ kol_report.summary.total_kols = 1
          /\ kol_report.summary.kol_percentage = [n |-> 100, d |-> 3]

(***************************************************************************)
(* The account limit (SpecLimit)                                           *)
(***************************************************************************)
Mocked == last_call.op = "generate_mock_kol_data" /\ error = "none"

\* the rows of tweets_df that belong to an account
RowsOf(user_id) == {i \in DOMAIN tweets_df : tweets_df[i].user_id = user_id}

\* C17: generate_mock_kol_data gives stats to at most 100 accounts, the first
\* 100 distinct user ids in order of first appearance in tweets_df; an
\* account beyond them has no entry; and the tweet_count and totals of an
\* included account cover all of its rows.
C17_AccountLimit ==
    Mocked =>
        LET ids == {tweets_df[i].user_id : i \in DOMAIN tweets_df}
            first == [u \in ids |->
                        CHOOSE i \in DOMAIN tweets_df :
                            /\ tweets_df[i].user_id = u
                            /\ \A j \in 1..(i - 1) : tweets_df[j].user_id # u]
            Earlier(u) == Cardinality({v \in ids : first[v] < first[u]})
        IN  /\ Len(user_stats) = Min(100, Cardinality(ids))
            /\ \A k \in DOMAIN user_stats :
                 /\ user_stats[k].key \in ids
                 /\ Earlier(user_stats[k].key) = k - 1
            /\ \A u \in ids : Earlier(u) >= 100 => ~HasKey(user_stats, u)
            /\ \A k \in DOMAIN user_stats :
                 LET rows == RowsOf(user_stats[k].key)
                     stats == user_stats[k].val
                 IN  /\ stats.tweet_count = Cardinality(rows)
                     /\ stats.total_views = IntSum([i \in rows |-> tweets_df[i].views])
                     /\ stats.total_likes = IntSum([i \in rows |-> tweets_df[i].likes])
                     /\ stats.total_retweets = IntSum([i \in rows |-> tweets_df[i].retweets])
                     /\ stats.total_replies = IntSum([i \in rows |-> tweets_df[i].replies])

\* 101 accounts in the file, 100 entries made; the first account has a row
\* after the first row of the excluded one and both of its rows are counted
C17_Witness ==
    /\ Mocked
    /\ Cardinality({tweets_df[i].user_id : i \in DOMAIN tweets_df}) = 101
    /\ Len(user_stats) = 100
    /\ ~HasKey(user_stats, "1")
    /\ user_stats[1].key = "101"
    /\ user_stats[1].val.tweet_count = 2
    /\ \E i, j \in DOMAIN tweets_df :
         i < j /\ tweets_df[i].user_id = "1" /\ tweets_df[j].user_id = "101"

(***************************************************************************)
(* Reading in batches (SpecBatch)                                          *)
(***************************************************************************)
\* the measured aggregates of every account, by account
Aggregates(stats) ==
    {[user_id |-> stats[i].key,
      tweet_count |-> stats[i].val.tweet_count,
      total_views |-> stats[i].val.total_views,
      total_likes |-> stats[i].val.total_likes,
      total_retweets |-> stats[i].val.total_retweets,
      total_replies |-> stats[i].val.total_replies] : i \in DOMAIN stats}

\* C18: whatever the chunk size the records are read with, the per-account
\* tweet_count, total_views, total_likes, total_retweets and total_replies
\* are those of the same file read as a single batch.
C18_BatchAssociativity ==
    fn_ret.called = "load_data" =>
        Aggregates(fn_ret.stats)
          = Aggregates(MeasuredStats(LoadedTweets(fn_arg.file, Len(fn_arg.file))))

(***************************************************************************)
(* Malformed records (SpecDegenerate)                                      *)
(***************************************************************************)
Loaded == last_call.op = "load_data" /\ error = "none"

\* what load_data leaves on the analyzer for a pair of files
AttributesAfterLoad(ds) ==
    [tweets_data |-> ReadCsv(ds.tweets, ChunkSize),
     tweets_df |-> LoadedTweets(ds.tweets, ChunkSize),
     followings_df |-> PreprocessFollowings(ds.followings)]

\* the number of records of a pair of files that miss a required field
Malformed(ds) ==
    Cardinality({i \in DOMAIN ds.tweets :
                   ds.tweets[i].user_id = NaN \/ ds.tweets[i].text = NaN})
      + Cardinality({i \in DOMAIN ds.followings :
                       ds.followings[i].user_id = NaN
                       \/ ds.followings[i].following_user_id = NaN})

\* C19: a post record without user_id or text and a follow record without
\* user_id or following_user_id are dropped without raising, are part of no
\* account's aggregates and of no edge, and the engine has counted them: the
\* number dropped can be read off what load_data leaves on the analyzer, so
\* two inputs that leave the same attributes dropped the same number.
C19_MalformedRecords ==
    /\ last_call.op = "load_data" => error = "none"
    /\ \A i \in DOMAIN tweets_df : tweets_df[i].text # NaN
    /\ \A i \in DOMAIN user_stats : user_stats[i].key \notin {NaN, NaN \o ".0"}
    /\ \A e \in user_network.edges : e[1] # NaN /\ e[2] # NaN
    /\ Loaded =>
         \A a, b \in DatasetsDegenerate :
            AttributesAfterLoad(a) = AttributesAfterLoad(b) => Malformed(a) = Malformed(b)

(***************************************************************************)
(* Synthesized fields (Spec)                                               *)
(***************************************************************************)
\* the fields that hold a statistic, a score, a class or an identity: all
\* the keys the dicts of generate_mock_kol_data, identify_kols,
\* analyze_network_metrics and generate_kol_report are given
ValueFields ==
    {"user_id", "user_name", "follower_count", "following_count", "tweet_count",
     "total_views", "total_likes", "total_retweets", "total_replies",
     "engagement_rate", "reach_score", "account_age_days", "verified", "last_active",
     "influence_score", "category", "kol_level",
     "degree_centrality", "closeness_centrality", "betweenness_centrality"}

\* the record has a field besides its values, which can mark some of them
Tagged(record) == DOMAIN record \ ValueFields # {}

\* C20: every account record whose follower_count, following_count,
\* account_age_days or verified was drawn at random carries a tag that marks
\* them as synthesized, in user_stats, in kol_data and in the entries of the
\* report's top_kols.
C20_SynthesizedTagged ==
    /\ \A i \in DOMAIN user_stats : Tagged(user_stats[i].val)
    /\ \A i \in DOMAIN kol_data : Tagged(kol_data[i].val)
    /\ \A i \in DOMAIN TopKols : Tagged(TopKols[i])

(***************************************************************************)
(* What generate_kol_report leaves alone (Spec)                            *)
(***************************************************************************)
\* C21: generate_kol_report leaves every account record unchanged:
\* user_stats and kol_data (key sets and every field value) are the same
\* after the call as before it, from every state, also when kol_data is
\* empty.
C21_ReadOnlyReport ==
    [][last_call'.op = "generate_kol_report" =>
            /\ user_stats' = user_stats
            /\ kol_data' = kol_data
      ]_vars

(***************************************************************************)
(* The category of an account (SpecCategory)                               *)
(***************************************************************************)
CategoryCalled == fn_ret.called = "_categorize_kol"

\* a keyword of the group is a substring of the lower-cased display name
GroupMatches(stats, kws) == AnyKeyword(Lower(stats.user_name), kws)

ReachableFrom(g, u) == {v \in g.nodes \ {u} : Distance(g, u, v) # Unreachable}

\* C23: after analyze_network_metrics on a graph of N > 1 nodes, the
\* closeness stored for each node is (N - 1) divided by the sum of the
\* shortest-path distances to the nodes reachable from it, unreachable nodes
\* left out of the sum; for a node that reaches no other node a value is
\* stored and nothing is raised.
C23_Closeness ==
    (/\ last_call.op = "analyze_network_metrics"
     /\ "user_stats" \in attrs
     /\ Cardinality(user_network.nodes) > 1) =>
        \A i \in DOMAIN user_stats :
            LET u == user_stats[i].key
                reached == ReachableFrom(user_network, u)
                total == IntSum([v \in reached |-> Distance(user_network, u, v)])
            IN  u \in user_network.nodes =>
                  /\ "closeness_centrality" \in DOMAIN user_stats[i].val
                  /\ reached # {} =>
                        user_stats[i].val.closeness_centrality
                           = Norm(Cardinality(user_network.nodes) - 1, total)

(***************************************************************************)
(* Edges of the graph (SpecGraph)                                          *)
(***************************************************************************)
\* the follow records whose two accounts are keys of user_stats
AdmissibleRecords(fdf, us) ==
    {j \in DOMAIN fdf :
        fdf[j].user_id \in Keys(us) /\ fdf[j].following_user_id \in Keys(us)}

\* the ordered pairs named by a set of follow records
PairsOf(fdf, records) ==
    {<<fdf[j].user_id, fdf[j].following_user_id>> : j \in records}

\* C24: build_user_network adds one edge for every ordered pair named by an
\* admissible follow record, however often the pair is recorded, and a
\* record (A,A) with A in user_stats gives the self-loop (A,A) like any
\* other edge; a second build_user_network on the same inputs leaves the
\* node set and the edge set as they are.
C24_NoParallelEdges ==
    [][(last_call'.op = "build_user_network" /\ error' = "none") =>
            LET admissible == AdmissibleRecords(followings_df, user_stats)
                pairs == PairsOf(followings_df, admissible)
            IN  /\ \A j \in admissible :
                     <<followings_df[j].user_id, followings_df[j].following_user_id>>
                        \in user_network'.edges
                /\ user_network'.edges \ user_network.edges \subseteq pairs
                /\ Cardinality(user_network'.edges)
                      <= Cardinality(user_network.edges) + Cardinality(pairs)
                /\ (last_call.op = "build_user_network" /\ error = "none") =>
                      user_network' = user_network
      ]_vars

\* a graph built from records that name one pair twice and hold a
\* self-loop: the pair is one edge, the self-loop is an edge
C24_Witness ==
    /\ Built
    /\ LET admissible == AdmissibleRecords(followings_df, user_stats)
       IN  /\ \E i, j \in admissible :
                /\ i # j
                /\ PairsOf(followings_df, {i}) = PairsOf(followings_df, {j})
           /\ \E j \in admissible :
                /\ followings_df[j].user_id = followings_df[j].following_user_id
                /\ <<followings_df[j].user_id, followings_df[j].user_id>> \in user_network.edges
           /\ user_network.edges = PairsOf(followings_df, admissible)
           /\ Cardinality(user_network.edges) < Cardinality(admissible)

(***************************************************************************)
(* Stages called in any order after load_data (SpecPipeline)               *)
(***************************************************************************)
\* the stages a client calls after load_data
PipelineStages ==
    {"identify_kols", "build_user_network", "analyze_network_metrics",
     "generate_kol_report"}

\* C25: on an analyzer on which load_data has completed, identify_kols,
\* build_user_network, analyze_network_metrics and generate_kol_report never
\* raise, whatever the order of the calls: a stage whose prerequisite
\* (user_stats, graph, kol_data) is missing runs the prerequisite stage
\* first, so that user_stats exists after every one of them.
C25_AnyOrder ==
    [][("tweets_df" \in attrs /\ last_call'.op \in PipelineStages) =>
            /\ error' = "none"
            /\ "user_stats" \in attrs'
      ]_vars

(***************************************************************************)
(* The list save_results writes (SpecSave)                                 *)
(***************************************************************************)
Saved == last_call.op = "save_results" /\ error = "none"

\* the accounts in the saved top_kols list
SavedIds == {save_data.top_kols[i].user_id : i \in DOMAIN save_data.top_kols}

\* C26: the top_kols list written by save_results holds the (up to) 50
\* highest-scoring qualified accounts of kol_data: min(50, len(kol_data))
\* accounts of kol_data, and no qualified account left out scores higher
\* than one in the list.
C26_SavedTop ==
    Saved =>
        /\ Len(save_data.top_kols) = Min(Len(kol_data), SaveLimit)
        /\ SavedIds \subseteq Keys(kol_data)
        /\ \A i \in DOMAIN kol_data :
             kol_data[i].key \notin SavedIds =>
                \A j \in DOMAIN save_data.top_kols :
                    kol_data[i].val.influence_score
                       <= save_data.top_kols[j].influence_score

(***************************************************************************)
(* The report after identify_kols with chosen thresholds (Spec)            *)
(***************************************************************************)
\* the accounts of user_stats that pass the gate with the given thresholds
QualifiedUnder(us, min_followers, min_engagement) ==
    {us[i].key : i \in {j \in DOMAIN us :
                          PassesGate(us[j].val, min_followers, min_engagement)}}

\* C27: the generate_kol_report that follows identify_kols(min_followers,
\* min_engagement) reports exactly the accounts qualified under those
\* thresholds: total_kols is their number and top_kols lists them (all of
\* them when there are at most TopN), also when no account qualified.
C27_ThresholdsHonoured ==
    [][(Identified /\ last_call'.op = "generate_kol_report") =>
            LET qualified == QualifiedUnder(user_stats, last_call.min_followers,
                                            last_call.min_engagement)
                listed == {kol_report'.top_kols[i].user_id :
                              i \in DOMAIN kol_report'.top_kols}
            IN  /\ error' = "none"
                /\ kol_report'.summary.total_kols = Cardinality(qualified)
                /\ listed \subseteq qualified
                /\ Cardinality(listed) = Min(Cardinality(qualified), TopN)
      ]_vars

(***************************************************************************)
(* Where the centrality values end up (SpecPipeline)                       *)
(***************************************************************************)
CentralityNames ==
    {"degree_centrality", "closeness_centrality", "betweenness_centrality"}

\* the record carries the three centrality values of the account record stats
CarriesCentrality(record, stats) ==
    /\ CentralityNames \subseteq DOMAIN record
    /\ CentralityNames \subseteq DOMAIN stats
    /\ \A f \in CentralityNames : record[f] = stats[f]

\* C28: after analyze_network_metrics on a graph of more than one node,
\* every account of user_stats has degree, closeness and betweenness
\* centrality set, and the record of every qualified account in kol_data
\* carries the same three values, whether identify_kols ran before or
\* after analyze_network_metrics.
C28_CentralityMerge ==
    (/\ \/ Analyzed
        \/ "network_metrics" \in attrs /\ Identified
     /\ Cardinality(user_network.nodes) > 1) =>
        /\ \A i \in DOMAIN user_stats :
             CentralityNames \subseteq DOMAIN user_stats[i].val
        /\ \A i \in DOMAIN kol_data :
             CarriesCentrality(kol_data[i].val, Get(user_stats, kol_data[i].key))

(***************************************************************************)
(* The scheduler's task history (SpecScheduler)                            *)
(***************************************************************************)
TaskOps == {"daily_collection_task", "weekly_cleanup_task"}

\* the name a task writes into its result
TaskNameOf(op) ==
    IF op = "daily_collection_task" THEN "daily_collection" ELSE "weekly_cleanup"

\* the result list stored in a file (none when the file does not exist)
StoredResults(file) == IF file.exists THEN file.results ELSE <<>>

C30_DedupCount ==
    [][last_call'.op = "_save_tweets" =>
            /\ \A r1, r2 \in db_tweets' : r1.data_hash = r2.data_hash => r1 = r2
            /\ fn_ret'.saved_count = Cardinality(db_tweets' \ db_tweets)
            /\ (\A i \in DOMAIN last_call'.tweets :
                   \E r \in db_tweets :
                      r.data_hash = GenerateTweetHash(last_call'.tweets[i]))
                 => fn_ret'.saved_count = 0
      ]_vars

====
